---- MODULE Spec2Model ----
(***************************************************************************)
(* A model of the log-time-to-tempo command line client: the alias store,  *)
(* the log / logm commands with their prompts, and the sparkline renderer. *)
(*                                                                         *)
(* Times are counted in whole hours.  An instant is the number of hours    *)
(* since 0:00 of day 0; a time of day is an hour 0..23.                    *)
(* Strings are tuples of one-character strings, so that substring tests,   *)
(* lower() and difflib's similarity ratio are computed, not assumed.       *)
(* An optional value is <<>> (Python's None) or <<v>>.                     *)
(***************************************************************************)
EXTENDS Integers, Sequences, FiniteSets, TLC

-----------------------------------------------------------------------------
(* Optional values, strings, dicts *)

None == <<>>

Some(v) == <<v>>

Val(o) == o[1]

\* str.lower() on the alphabet of the model
LowerChar(c) ==
    CASE c = "T" -> "t"
      [] c = "O" -> "o"
      [] OTHER   -> c

Lower(s) == [i \in 1..Len(s) |-> LowerChar(s[i])]

\* Python's  x in s  for two strings
IsSubstr(x, s) ==
    \E i \in 0..(Len(s) - Len(x)) : SubSeq(s, i + 1, i + Len(x)) = x

\* A dict is a tuple of <<key, value>> pairs with distinct keys, in insertion order.
DictKeys(d) == {d[i][1] : i \in 1..Len(d)}

DictValues(d) == {d[i][2] : i \in 1..Len(d)}

DictIndex(d, k) == CHOOSE i \in 1..Len(d) : d[i][1] = k

DictGet(d, k) == d[DictIndex(d, k)][2]

\* d[k] = v : an existing key keeps its place, a new key goes last
DictSet(d, k, v) ==
    IF k \in DictKeys(d)
    THEN [i \in 1..Len(d) |-> IF d[i][1] = k THEN <<k, v>> ELSE d[i]]
    ELSE Append(d, <<k, v>>)

\* next(key for key, value in d.items() if value == v)
DictFirstKeyOf(d, v) ==
    d[CHOOSE i \in 1..Len(d) :
        /\ d[i][2] = v
        /\ \A j \in 1..(i - 1) : d[j][2] # v][1]

RECURSIVE DictUpdate(_, _)
\* d.update(e)
DictUpdate(d, e) ==
    IF e = <<>> THEN d
    ELSE DictUpdate(DictSet(d, e[1][1], e[1][2]), Tail(e))

RECURSIVE SelectAt(_, _)
\* the elements of d whose index is in keep, in order
SelectAt(d, keep) ==
    IF d = <<>> THEN <<>>
    ELSE LET rest == SelectAt(Tail(d), {i - 1 : i \in keep \ {1}})
         IN  IF 1 \in keep THEN <<Head(d)>> \o rest ELSE rest

-----------------------------------------------------------------------------
(* difflib.get_close_matches, as log_time uses it *)

\* the longest block a[i+1..i+k] = b[j+1..j+k] inside a[alo+1..ahi], b[blo+1..bhi]:
\* k largest, then i smallest, then j smallest (difflib.find_longest_match)
Blocks(a, alo, ahi, b, blo, bhi) ==
    {<<i, j, k>> \in (alo..ahi) \X (blo..bhi) \X (0..(ahi - alo)) :
        /\ i + k <= ahi
        /\ j + k <= bhi
        /\ \A d \in 1..k : a[i + d] = b[j + d]}

Longest(bs) ==
    CHOOSE m \in bs :
      \A o \in bs :
         \/ m[3] > o[3]
         \/ m[3] = o[3] /\ m[1] < o[1]
         \/ m[3] = o[3] /\ m[1] = o[1] /\ m[2] <= o[2]

LongestMatch(a, alo, ahi, b, blo, bhi) == Longest(Blocks(a, alo, ahi, b, blo, bhi))

RECURSIVE MatchCount(_, _, _, _, _, _)
RECURSIVE MatchCountAround(_, _, _, _, _, _, _)
\* the number of matching characters (SequenceMatcher.get_matching_blocks):
\* the longest block, then the same to its left and to its right
MatchCount(a, alo, ahi, b, blo, bhi) ==
    MatchCountAround(a, alo, ahi, b, blo, bhi, LongestMatch(a, alo, ahi, b, blo, bhi))

\* m = <<i, j, k>> is the longest block
MatchCountAround(a, alo, ahi, b, blo, bhi, m) ==
    IF m[3] = 0 THEN 0
    ELSE m[3]
         + (IF alo < m[1] /\ blo < m[2] THEN MatchCount(a, alo, m[1], b, blo, m[2]) ELSE 0)
         + (IF m[1] + m[3] < ahi /\ m[2] + m[3] < bhi
            THEN MatchCount(a, m[1] + m[3], ahi, b, m[2] + m[3], bhi) ELSE 0)

Matches(x, word) == MatchCount(x, 0, Len(x), word, 0, Len(word))

\* cutoff=0.6 in tenths, n=5
CutoffTenths == 6

MaxCloseMatches == 5

\* SequenceMatcher(a=x, b=word).ratio() >= cutoff, i.e. 2*M/T >= 6/10
IsClose(x, word) ==
    IF Len(x) + Len(word) = 0 THEN TRUE
    ELSE 2 * Matches(x, word) * 10 >= CutoffTenths * (Len(x) + Len(word))

\* the order of characters and of strings, for the ties of heapq.nlargest
Alphabet ==
    <<" ", ",", "-", "1", "2", "3", "9", ":", "O", "T",
      "a", "f", "h", "i", "l", "o", "p", "r", "s", "t", "z">>

Ord(c) == CHOOSE i \in 1..Len(Alphabet) : Alphabet[i] = c

RECURSIVE StrLess(_, _)
StrLess(s, t) ==
    IF t = <<>> THEN FALSE
    ELSE IF s = <<>> THEN TRUE
    ELSE IF s[1] # t[1] THEN Ord(s[1]) < Ord(t[1])
    ELSE StrLess(Tail(s), Tail(t))

\* (ratio, x) > (ratio, y) as heapq.nlargest compares the scored words
\* mx / (Len(x) + Len(word)) against my / (Len(y) + Len(word)), cross-multiplied
PairAbove(mx, x, my, y, word) ==
    \/ mx * (Len(y) + Len(word)) > my * (Len(x) + Len(word))
    \/ mx * (Len(y) + Len(word)) = my * (Len(x) + Len(word)) /\ StrLess(y, x)

ScoredAbove(x, y, word) == PairAbove(Matches(x, word), x, Matches(y, word), y, word)

\* heapq.nlargest(n, close): the n best scored of the close words
NLargest(close, word) ==
    {x \in close : Cardinality({y \in close : ScoredAbove(y, x, word)}) < MaxCloseMatches}

\* set(get_close_matches(word, possibilities, n=5, cutoff=0.6))
CloseMatches(word, possibilities) ==
    NLargest({x \in possibilities : IsClose(x, word)}, word)

-----------------------------------------------------------------------------
(* The names of the model *)

T1 == <<"T", "-", "1">>

T3 == <<"T", "-", "3">>

T9 == <<"T", "-", "9">>

opt == <<"o", "p", "t">>

op == <<"o", "p">>

zz == <<"z", "z">>

\* the issues the tracker knows: jira.issue(key) succeeds for these alone
JiraIssues == {T1}

\* _jira.get_all_issues(): the cached mapping key -> summary; T-9 was deleted
\* in the tracker after the cache was filled
IssueCache == << <<T1, <<"O", "p", " ", "T", "-", "3">> >>, <<T9, <<"T", "-", "9">> >> >>

AliasFor == <<"a", "l", "i", "a", "s", " ", "f", "o", "r", " ">>

-----------------------------------------------------------------------------
(* Time arithmetic of datetime, in hours *)

\* datetime.time(): the time of day of an instant
TimeOf(instant) == instant % 24

\* datetime.combine(day, time)
Combine(day, t) == day * 24 + t

\* the day's cap: timedelta(hours=10)
CapHours == 10

\* the literal fallback of os.getenv('LT_LOG_START', '9')
DefaultStart == <<"9">>

DigitValue(c) ==
    CASE c = "1" -> 1
      [] c = "2" -> 2
      [] c = "3" -> 3
      [] c = "8" -> 8
      [] c = "9" -> 9

IsDigit(c) == c \in {"1", "2", "3", "8", "9"}

\* _time.parse_time on the text of a full hour ("9" is 9:00)
ParseTime(text) == DigitValue(text[1])

RECURSIVE SumSpent(_)
\* sum(worklog.timeSpentSeconds for worklog in worklogs)
SumSpent(wl) == IF wl = <<>> THEN 0 ELSE Head(wl).timeSpent + SumSpent(Tail(wl))

WorklogEnd(w) == w.started + w.timeSpent

-----------------------------------------------------------------------------
(* log_time, the part after the issue lookup (log.py 97-146) *)

\* the start of the new entry: --start, else the end of the day's last worklog,
\* else LT_LOG_START, else 9
StartEnvFirst(a, wl, envStart) ==
    IF a.start # None THEN Val(a.start)
    ELSE IF envStart # None THEN ParseTime(Val(envStart))
    ELSE IF wl # <<>> THEN TimeOf(WorklogEnd(wl[Len(wl)]))
    ELSE ParseTime(DefaultStart)

StartTime(a, wl, envStart) ==
    IF wl # <<>> /\ a.start = None THEN TimeOf(WorklogEnd(wl[Len(wl)]))
    ELSE IF a.start = None
         THEN ParseTime(IF envStart # None THEN Val(envStart) ELSE DefaultStart)
         ELSE Val(a.start)

LunchGiven(a) == a.lunch # None /\ Val(a.lunch) # 0

\* duration and end before and after the lunch break is taken off
DurationBeforeLunch(a, started) ==
    IF a.end # None THEN Combine(a.day, Val(a.end)) - started ELSE a.duration

EndBeforeLunch(a, started) ==
    IF a.end = None THEN TimeOf(started + a.duration) ELSE Val(a.end)

FinalDurationKeepsLunch(a, started) == DurationBeforeLunch(a, started)

FinalDuration(a, started) ==
    IF LunchGiven(a)
    THEN DurationBeforeLunch(a, started) - Val(a.lunch)
    ELSE DurationBeforeLunch(a, started)

FinalEnd(a, started) ==
    IF LunchGiven(a)
    THEN TimeOf(Combine(a.day, EndBeforeLunch(a, started)) - Val(a.lunch))
    ELSE EndBeforeLunch(a, started)

\* the test of the overlap warning, on times of day
Overlaps(w, start, end) ==
    /\ TimeOf(w.started) < end
    /\ TimeOf(WorklogEnd(w)) > start

\* the daily cap
CapExceededAtCap(logged, duration) == logged + duration >= CapHours

\* the cap held against the new entry alone
CapExceededOnEntry(logged, duration) == duration > CapHours

CapExceeded(logged, duration) == logged + duration > CapHours

-----------------------------------------------------------------------------
(* log_time, the issue resolution (log.py 44-94) *)

\* lines 45-51: an alias given as issue is replaced by the key it maps to
ResolveAlias(issue, aliases) ==
    IF issue \in DictKeys(aliases)
    THEN [issue |-> DictGet(aliases, issue), alias |-> issue]
    ELSE IF issue \in DictValues(aliases)
         THEN [issue |-> issue, alias |-> DictFirstKeyOf(aliases, issue)]
         ELSE [issue |-> issue, alias |-> <<>>]

\* cfg.jira.issue(issue) raises JIRAError unless the tracker knows the key
LookupFails(issue) == issue \notin JiraIssues

\* lines 57-62: {issue: 'alias for ' + alias} for the aliases close to the input
AliasDescriptions(hits) ==
    DictUpdate(<<>>, [i \in 1..Len(hits) |-> <<hits[i][2], AliasFor \o hits[i][1]>>])

AliasesIn(aliases, fuzzy_matches) ==
    SelectAt(aliases, {i \in 1..Len(aliases) : aliases[i][1] \in fuzzy_matches})

SimilarFromAliases(issue, aliases) ==
    AliasDescriptions(AliasesIn(aliases, CloseMatches(issue, DictKeys(aliases))))

\* lines 65-72: the cached issues whose summary contains the input and whose key
\* occurs in no description collected so far
SimilarFromCache(issue, fromAliases) ==
    SelectAt(IssueCache,
        {i \in 1..Len(IssueCache) :
            /\ IsSubstr(Lower(issue), Lower(IssueCache[i][2]))
            /\ ~ \E v \in DictValues(fromAliases) : IsSubstr(IssueCache[i][1], v)})

WithSimilarFromCache(issue, fromAliases) ==
    DictUpdate(fromAliases, SimilarFromCache(issue, fromAliases))

SimilarIssues(issue, aliases) ==
    WithSimilarFromCache(issue, SimilarFromAliases(issue, aliases))

RECURSIVE Firsts(_)
Firsts(d) == IF d = <<>> THEN <<>> ELSE <<Head(d)[1]>> \o Firsts(Tail(d))

-----------------------------------------------------------------------------
(* One run of log_time up to its first prompt or its end.                  *)
(* A machine record m holds what a command changes while it runs:          *)
(*   worklogs  the booking service's worklogs of the day, chronological     *)
(*   out       what happened so far, oldest first                          *)
(*   pc        "dym" / "continue": waiting at a prompt; "returned": log_time*)
(*             came back to its caller; "exited": error() ended the process;*)
(*             "crashed": an exception ended it                            *)
(*   args      the arguments of the running log_time                       *)
(*   loc       its local variables at the prompt                           *)
(*   depth     how many 'Did you mean' re-invocations are on the stack     *)
(*   todo      the entries logm has not come to yet                        *)
(***************************************************************************)

NoLocals == [issue |-> <<>>, suggested |-> <<>>, started |-> 0, duration |-> 0]

\* tempo.get_worklogs(worker, day, day): chronological
GetWorklogs(store, day) == store

RECURSIVE InsertChrono(_, _)
\* the store after tempo.create_worklog: the day's worklogs stay chronological
InsertChrono(store, w) ==
    IF store = <<>> THEN <<w>>
    ELSE IF Head(store).started <= w.started
         THEN <<Head(store)>> \o InsertChrono(Tail(store), w)
         ELSE <<w>> \o store

\* lines 115-123: one warning for every worklog the test finds overlapping
OverlapWarnings(wl, start, end) ==
    LET hits == SelectAt(wl, {i \in 1..Len(wl) : Overlaps(wl[i], start, end)})
    IN  [i \in 1..Len(hits) |-> <<"warning", hits[i].started, WorklogEnd(hits[i])>>]

\* line 139: the entry is booked with --yes or with the user's consent
ConfirmedRegardless(yes, answer) == TRUE

Confirmed(yes, answer) == yes \/ answer

\* lines 140-146
CreateWorklog(m, issue, started, duration) ==
    [m EXCEPT
        !.worklogs = InsertChrono(@, [started |-> started, timeSpent |-> duration, issue |-> issue]),
        !.out = Append(@, <<"create", issue, started, duration, m.args.message>>),
        !.pc = "returned"]

\* error(msg): prints the message and ends the process
ErrorExit(m, event) == [m EXCEPT !.out = Append(@, event), !.pc = "exited"]

\* lines 97-146, once the issue is found
Book(m, issue, envStart) ==
    LET a        == m.args
        wl       == GetWorklogs(m.worklogs, a.day)
        logged   == SumSpent(wl)
        start    == StartTime(a, wl, envStart)
        started  == Combine(a.day, start)
        duration == FinalDuration(a, started)
        end      == FinalEnd(a, started)
        shown    == OverlapWarnings(wl, start, end) \o <<<<"print", duration, start, end>>>>
        m1       == [m EXCEPT !.out = @ \o shown,
                              !.loc = [NoLocals EXCEPT !.issue = issue, !.started = started,
                                                       !.duration = duration]]
    IN  IF CapExceeded(logged, duration)
        THEN ErrorExit(m1, <<"cap_error", logged>>)
        ELSE IF Confirmed(a.yes, FALSE)
             THEN CreateWorklog(m1, issue, started, duration)
             ELSE [m1 EXCEPT !.out = Append(@, <<"continue?">>), !.pc = "continue"]

\* lines 55-94: the lookup failed
Suggest(m, issue, similar) ==
    IF Len(similar) = 1
    THEN [m EXCEPT !.out = Append(@, <<"did_you_mean?", similar[1][1], similar[1][2]>>),
                   !.loc = [NoLocals EXCEPT !.issue = issue, !.suggested = similar[1][1]],
                   !.pc = "dym"]
    ELSE [m EXCEPT !.out = @ \o <<<<"error", issue>>>>
                           \o (IF Len(similar) > 1
                               THEN <<<<"did_you_mean", Firsts(similar)>>>> ELSE <<>>),
                   !.pc = "returned"]

\* log_time(ctx, **a) up to the first prompt
StartLog(m, a, c, envStart) ==
    LET issue == ResolveAlias(a.issue, c.aliases).issue
        m0    == [m EXCEPT !.args = a, !.loc = NoLocals,
                           !.out = Append(@, <<"log_time", a, m.depth>>)]
    IN  IF ~ c.authed
        THEN [m0 EXCEPT !.out = Append(@, <<"crash">>), !.pc = "crashed"]
        ELSE IF LookupFails(issue)
             THEN Suggest([m0 EXCEPT !.out = Append(@, <<"lookup", issue, FALSE>>)],
                          issue, SimilarIssues(issue, c.aliases))
             ELSE Book([m0 EXCEPT !.out = Append(@, <<"lookup", issue, TRUE>>)],
                       issue, envStart)

-----------------------------------------------------------------------------
(* logm (log.py 149-187) *)

RECURSIVE Split(_, _)
\* s.split(sep) for a one-character separator
Split(s, sep) ==
    IF \A i \in 1..Len(s) : s[i] # sep THEN <<s>>
    ELSE LET k == CHOOSE i \in 1..Len(s) : s[i] = sep /\ \A j \in 1..(i - 1) : s[j] # sep
         IN  <<SubSeq(s, 1, k - 1)>> \o Split(SubSeq(s, k + 1, Len(s)), sep)

\* s.split(sep, 1)
SplitOnce(s, sep) ==
    IF \A i \in 1..Len(s) : s[i] # sep THEN <<s>>
    ELSE LET k == CHOOSE i \in 1..Len(s) : s[i] = sep /\ \A j \in 1..(i - 1) : s[j] # sep
         IN  <<SubSeq(s, 1, k - 1), SubSeq(s, k + 1, Len(s))>>

\* _time.parse_duration on "<digit>" (hours) and "<digit>h"; None stands for
\* the error it raises on any other text
ParseDuration(text) ==
    IF Len(text) = 1 /\ IsDigit(text[1]) THEN Some(DigitValue(text[1]))
    ELSE IF Len(text) = 2 /\ IsDigit(text[1]) /\ text[2] = "h" THEN Some(DigitValue(text[1]))
    ELSE None

\* lines 175-185: the arguments logm gives log_time for one entry
EntryArgs(issue, duration, o) ==
    [duration |-> duration, issue |-> issue, day |-> o.day, start |-> o.start,
     end |-> o.end, lunch |-> None, message |-> o.message, yes |-> o.yes]

RECURSIVE LogmLoop(_, _, _, _)
\* lines 170-187: the loop over the entries, from the point where log_time has
\* come back (or from the start), up to the next prompt or the end
LogmLoop(m, c, envStart, o) ==
    IF m.pc # "returned" THEN m
    ELSE IF m.todo = <<>> THEN [m EXCEPT !.pc = "done"]
    ELSE LET entry == Head(m.todo)
             m1    == [m EXCEPT !.todo = Tail(@), !.depth = 0]
             parts == SplitOnce(entry, ":")
         IN  IF entry = <<>> THEN LogmLoop(m1, c, envStart, o)
             ELSE IF Len(parts) < 2 \/ ParseDuration(parts[Len(parts)]) = None
                  THEN ErrorExit(m1, <<"invalid_entry", entry>>)
                  ELSE LogmLoop(
                           StartLog(m1, EntryArgs(parts[1], Val(ParseDuration(parts[2])), o),
                                    c, envStart),
                           c, envStart, o)

-----------------------------------------------------------------------------
(* The sparkline (_sparkline.py).  A date is its number of days since Monday *)
(* 2024-01-01; a sparkline is the sequence of the indices of its characters  *)
(* in SPARKLINE_CHARS, 0 being the blank.                                    *)

DaysInMonth(leap) ==
    <<31, IF leap THEN 29 ELSE 28, 31, 30, 31, 30, 31, 31, 30, 31, 30, 31>>

RECURSIVE MonthDay(_, _, _)
MonthDay(n, month, lens) ==
    IF n < lens[month] THEN <<n + 1, month>> ELSE MonthDay(n - lens[month], month + 1, lens)

\* date.strftime('%d.%m'), for the dates of 2024 and 2025
DateStr(d) ==
    IF d < 366 THEN MonthDay(d, 1, DaysInMonth(TRUE))
    ELSE MonthDay(d - 366, 1, DaysInMonth(FALSE))

\* date.weekday(): Monday is 0
Weekday(d) == d % 7

\* daily_data.get(date_str, {}).get('timeSpentSeconds', 0) / 3600
HoursOn(daily_data, d) ==
    IF DateStr(d) \in DOMAIN daily_data THEN daily_data[DateStr(d)] ELSE 0

\* the loop over the dates from from_date to to_date, one value a day
DailyValues(daily_data, from_date, to_date) ==
    [i \in 1..(to_date - from_date + 1) |-> HoursOn(daily_data, from_date + i - 1)]

RECURSIVE MaxOf(_)
MaxOf(values) ==
    IF Len(values) = 1 THEN values[1]
    ELSE LET rest == MaxOf(Tail(values))
         IN  IF values[1] > rest THEN values[1] ELSE rest

RECURSIVE MinOf(_)
MinOf(values) ==
    IF Len(values) = 1 THEN values[1]
    ELSE LET rest == MinOf(Tail(values))
         IN  IF values[1] < rest THEN values[1] ELSE rest

AllZero(values) == \A i \in 1..Len(values) : values[i] = 0

SparkLevels == 8

\* round(p / q) for p >= 0 and q > 0: halves go to the even neighbour
RoundDiv(p, q) ==
    LET low == p \div q
        r2  == 2 * (p % q)
    IN  IF r2 < q THEN low
        ELSE IF r2 > q THEN low + 1
        ELSE IF low % 2 = 0 THEN low ELSE low + 1

\* sparklines(values)[0] of the sparklines package: one block a value, the
\* smallest value on the lowest block
LibrarySparkline(values) ==
    LET lo == MinOf(values)
        hi == MaxOf(values)
    IN  [i \in 1..Len(values) |->
            IF hi = lo THEN SparkLevels \div 2
            ELSE RoundDiv((SparkLevels - 1) * (values[i] - lo), hi - lo) + 1]

\* lines 85-89 without the step over the blank at SPARKLINE_CHARS[0]
GlyphIndexFromBlank(value, max_value) ==
    IF value = 0 THEN 0
    ELSE LET level == (value * SparkLevels) \div max_value
         IN  IF level < SparkLevels - 1 THEN level ELSE SparkLevels - 1

\* _generate_ascii_sparkline, lines 85-89: the character of one value
GlyphIndex(value, max_value) ==
    IF value = 0 THEN 0
    ELSE LET level == (value * SparkLevels) \div max_value
         IN  (IF level < SparkLevels - 1 THEN level ELSE SparkLevels - 1) + 1

\* _generate_ascii_sparkline
AsciiSparkline(daily_data, from_date, to_date) ==
    LET daily_values == DailyValues(daily_data, from_date, to_date)
    IN  IF daily_values = <<>> \/ AllZero(daily_values) THEN <<>>
        ELSE [i \in 1..Len(daily_values) |-> GlyphIndex(daily_values[i], MaxOf(daily_values))]

\* generate_sparkline_from_daily_data; installed: whether the sparklines
\* package can be imported
GenerateSparkline(daily_data, from_date, to_date, installed) ==
    IF installed
    THEN LET daily_hours == DailyValues(daily_data, from_date, to_date)
         IN  IF daily_hours = <<>> \/ AllZero(daily_hours) THEN <<>>
             ELSE LibrarySparkline(daily_hours)
    ELSE AsciiSparkline(daily_data, from_date, to_date)

-----------------------------------------------------------------------------
(* Bounds and the inputs the commands are tried with *)

MaxAliasCmds == 1

MaxInitialWorklogs == 2

MaxDepth == 2

MaxEntries == 2

\* commands run one after the other on one day
MaxInvocations == 3

AliasIssueArgs == {None, Some(T1), Some(opt)}

AliasNameArgs == {T1, opt}

LogIssueArgs == {T1, opt, op, T3, T9, zz}

DurationArgs == {1, 2}

StartArgs == {None, Some(11), Some(12), Some(22)}

EndArgs == {None, Some(10), Some(13)}

LunchArgs == {None, Some(1)}

DayArgs == {0}

EnvStarts == {None, Some(<<"8">>)}

\* <<start hour, hours>> of the worklogs a day may hold before the first command
WorklogPool == {<<9, 3>>, <<9, 9>>, <<23, 2>>}

Worklog(p) == [started |-> Combine(0, p[1]), timeSpent |-> p[2], issue |-> T1]

InitialWorklogs ==
    {wl \in UNION {[1..n -> {Worklog(p) : p \in WorklogPool}] : n \in 0..MaxInitialWorklogs} :
        \A i \in 1..(Len(wl) - 1) : wl[i].started < wl[i + 1].started}

\* the arguments log is tried with: every combination of the time options on a
\* known issue, and every issue argument with fewer combinations of them
LogArgs ==
    [duration : DurationArgs, issue : {T1}, day : DayArgs, start : StartArgs,
     end : EndArgs, lunch : LunchArgs, message : {None}, yes : BOOLEAN]
    \cup
    [duration : {1}, issue : LogIssueArgs, day : DayArgs, start : {None, Some(11)},
     end : {None}, lunch : LunchArgs, message : {Some(<<"w">>)}, yes : BOOLEAN]

\* the texts of single logm entries, and the entries arguments made of them
EntryTexts ==
    {<<>>, T1, T1 \o <<":", "1">>, T1 \o <<":", "z">>, op \o <<":", "2", "h">>}

RECURSIVE Join(_)
Join(texts) ==
    IF Len(texts) = 1 THEN texts[1] ELSE texts[1] \o <<",">> \o Join(Tail(texts))

EntriesArgs == {Join(t) : t \in UNION {[1..n -> EntryTexts] : n \in 1..MaxEntries}}

LogmOptions ==
    [day : DayArgs, start : {None, Some(22)}, end : {None},
     message : {None}, yes : BOOLEAN]

NoArgs ==
    [duration |-> 0, issue |-> <<>>, day |-> 0, start |-> None, end |-> None,
     lunch |-> None, message |-> None, yes |-> FALSE]
-----------------------------------------------------------------------------
(* cli/_sparkline.py, the module stats.py imports its three functions from, *)
(* is not among the sources; it is modelled from its tests                  *)
(* (test_sparkline_axis.py) and from its description.                       *)

\* the number of workdays (Monday to Friday) before the date d, counted from
\* 2024-01-01
WorkdaysBefore(d) == 5 * (d \div 7) + (IF Weekday(d) < 5 THEN Weekday(d) ELSE 5)

\* the dates of the range that fall on Monday to Friday, in order
Workdays(from_date, to_date) ==
    IF from_date > to_date THEN <<>>
    ELSE [i \in 1..(WorkdaysBefore(to_date + 1) - WorkdaysBefore(from_date)) |->
             7 * ((WorkdaysBefore(from_date) + i - 1) \div 5)
                 + ((WorkdaysBefore(from_date) + i - 1) % 5)]

WeeklyMaxDays == 14

MonthlyMaxDays == 60

\* determine_date_range_type with a year that starts a day early
DetermineDateRangeTypeEarlyYear(from_date, to_date) ==
    LET days == to_date - from_date + 1
    IN  IF days <= WeeklyMaxDays THEN "weekly"
        ELSE IF days < MonthlyMaxDays THEN "monthly"
        ELSE "yearly"

\* determine_date_range_type with a week that ends a day early
DetermineDateRangeTypeShortWeek(from_date, to_date) ==
    LET days == to_date - from_date + 1
    IN  IF days < WeeklyMaxDays THEN "weekly"
        ELSE IF days <= MonthlyMaxDays THEN "monthly"
        ELSE "yearly"

\* determine_date_range_type: the days of the range, both ends counted
DetermineDateRangeType(from_date, to_date) ==
    LET days == to_date - from_date + 1
    IN  IF days <= WeeklyMaxDays THEN "weekly"
        ELSE IF days <= MonthlyMaxDays THEN "monthly"
        ELSE "yearly"

RangeTypes == {"weekly", "monthly", "yearly"}

DecimalDigits == <<"0", "1", "2", "3", "4", "5", "6", "7", "8", "9">>

\* str(n) for 0 <= n < 100
Str(n) ==
    IF n < 10 THEN <<DecimalDigits[n + 1]>>
    ELSE <<DecimalDigits[(n \div 10) + 1], DecimalDigits[(n % 10) + 1]>>

\* date.strftime('%b')
MonthAbbr ==
    << <<"J", "a", "n">>, <<"F", "e", "b">>, <<"M", "a", "r">>, <<"A", "p", "r">>,
       <<"M", "a", "y">>, <<"J", "u", "n">>, <<"J", "u", "l">>, <<"A", "u", "g">>,
       <<"S", "e", "p">>, <<"O", "c", "t">>, <<"N", "o", "v">>, <<"D", "e", "c">> >>

\* the ISO week (monthly) or the month (yearly) a date lies in, counted from
\* the week and the month of 2024-01-01, a Monday
PeriodOf(d, range_type) ==
    IF range_type = "monthly" THEN d \div 7
    ELSE DateStr(d)[2] + (IF d < 366 THEN 0 ELSE 12)

\* the positions whose workday opens a new week or a new month: the first
\* workday and every one whose period differs from that of the workday before

LabelStarts(workdays, range_type) ==
    {i \in 1..Len(workdays) :
        i = 1 \/ PeriodOf(workdays[i], range_type) # PeriodOf(workdays[i - 1], range_type)}

\* the label written at the n-th start: W1, W2, ... or the month's name
LabelAt(workdays, range_type, i, n) ==
    IF range_type = "monthly" THEN <<"W">> \o Str(n)
    ELSE MonthAbbr[DateStr(workdays[i])[2]]

\* the character at position i of the overlay: that of the last label that
\* reaches i, a blank when none does
AxisChar(workdays, range_type, starts, i) ==
    LET reaching == {s \in starts :
                        /\ s <= i
                        /\ i - s < Len(LabelAt(workdays, range_type, s,
                                               Cardinality({t \in starts : t <= s})))}
    IN  IF reaching = {} THEN " "
        ELSE LET s == CHOOSE x \in reaching : \A y \in reaching : y <= x
             IN  LabelAt(workdays, range_type, s,
                         Cardinality({t \in starts : t <= s}))[i - s + 1]

\* generate_axis_labels that lets the last label run past the last workday
AxisLabelsUnclipped(workdays, range_type, starts) ==
    LET last == CHOOSE x \in starts : \A y \in starts : y <= x
        n    == last - 1 + Len(LabelAt(workdays, range_type, last, Cardinality(starts)))
        len  == IF n > Len(workdays) THEN n ELSE Len(workdays)
    IN  [i \in 1..len |-> AxisChar(workdays, range_type, starts, i)]

\* the overlay: one character for every workday
AxisLabels(workdays, range_type, starts) ==
    [i \in 1..Len(workdays) |-> AxisChar(workdays, range_type, starts, i)]

\* generate_axis_labels
GenerateAxisLabels(from_date, to_date, range_type) ==
    IF range_type = "weekly" \/ Workdays(from_date, to_date) = <<>> THEN <<>>
    ELSE AxisLabels(Workdays(from_date, to_date), range_type,
                    LabelStarts(Workdays(from_date, to_date), range_type))

\* the sparkline of stats: one character for every workday of the range, the
\* values measured against maximum
WorkdayValues(daily_data, workdays) ==
    [i \in 1..Len(workdays) |-> HoursOn(daily_data, workdays[i])]

WorkdaySparkline(values, maximum) ==
    IF values = <<>> \/ AllZero(values) THEN <<>>
    ELSE [i \in 1..Len(values) |-> GlyphIndex(values[i], maximum)]

\* generate_sparkline_from_daily_data(days, from_date, to_date, maximum=8, minimum=0)
GenerateWorkdaySparkline(daily_data, from_date, to_date, maximum) ==
    WorkdaySparkline(WorkdayValues(daily_data, Workdays(from_date, to_date)), maximum)
-----------------------------------------------------------------------------
(* list and stats (commands/stats.py).  A worklog is a record of its id, the *)
(* key of its issue, its day, its time in hours and its comment; stats is    *)
(* the dict of the projects in the order of their first worklog.             *)

FirstOfMonth(d) == d - (DateStr(d)[1] - 1)

FirstOfYear(d) == IF d < 366 THEN 0 ELSE 366

RangeNames ==
    {"today", "yesterday", "week", "last-week", "month", "last-month", "year", "last-year"}

\* _time.parse_relative_date_range, anchored on today
ParseRelativeDateRange(date_range, today) ==
    CASE date_range = "today"      -> <<today, today>>
      [] date_range = "yesterday"  -> <<today - 1, today - 1>>
      [] date_range = "week"       -> <<today - Weekday(today), today>>
      [] date_range = "last-week"  -> <<today - Weekday(today) - 7, today - Weekday(today) - 1>>
      [] date_range = "month"      -> <<FirstOfMonth(today), today>>
      [] date_range = "last-month" -> <<FirstOfMonth(FirstOfMonth(today) - 1),
                                        FirstOfMonth(today) - 1>>
      [] date_range = "year"       -> <<FirstOfYear(today), today>>
      [] date_range = "last-year"  -> <<FirstOfYear(FirstOfYear(today) - 1),
                                        FirstOfYear(today) - 1>>

\* lines 107-118 (and 43-44): the range the command works on
ResolveRange(a) ==
    IF a.from_date = None THEN ParseRelativeDateRange(a.date_range, a.today)
    ELSE <<Val(a.from_date), IF a.to_date = None THEN a.today ELSE Val(a.to_date)>>

\* tempo.get_worklogs(user, from_date, to_date): the user's worklogs of these days
WorklogsBetween(store, from_date, to_date) ==
    SelectSeq(store, LAMBDA w : from_date <= w.day /\ w.day <= to_date)

\* utils.get_project_name
GetProjectName(aliases, key) ==
    IF key \in DictValues(aliases) THEN DictFirstKeyOf(aliases, key) ELSE key

NewProject == [timeSpentSeconds |-> 0, worklogs |-> <<>>, days |-> <<>>]

\* lines 134-141 with = in place of += on a day already there
AddToDaysOverwriting(days, w) ==
    IF DateStr(w.day) \notin DictKeys(days)
    THEN Append(days, <<DateStr(w.day),
                        [comments |-> {w.comment}, timeSpentSeconds |-> w.timeSpentSeconds]>>)
    ELSE DictSet(days, DateStr(w.day),
                 [comments |-> DictGet(days, DateStr(w.day)).comments \cup {w.comment},
                  timeSpentSeconds |-> w.timeSpentSeconds])

\* lines 134-141: the bucket of the worklog's day
AddToDays(days, w) ==
    IF DateStr(w.day) \notin DictKeys(days)
    THEN Append(days, <<DateStr(w.day),
                        [comments |-> {w.comment}, timeSpentSeconds |-> w.timeSpentSeconds]>>)
    ELSE DictSet(days, DateStr(w.day),
                 [comments |-> DictGet(days, DateStr(w.day)).comments \cup {w.comment},
                  timeSpentSeconds |-> DictGet(days, DateStr(w.day)).timeSpentSeconds
                                           + w.timeSpentSeconds])

\* lines 130-141, for a project that has its entry
AddToProject(entry, w) ==
    [timeSpentSeconds |-> entry.timeSpentSeconds + w.timeSpentSeconds,
     worklogs |-> Append(entry.worklogs, w),
     days |-> AddToDays(entry.days, w)]

\* lines 122-141: one turn of the loop
AddWorklog(stats, project, w) ==
    IF project \in DictKeys(stats)
    THEN DictSet(stats, project, AddToProject(DictGet(stats, project), w))
    ELSE Append(stats, <<project, AddToProject(NewProject, w)>>)

RECURSIVE FoldWorklogs(_, _, _)
FoldWorklogs(stats, fetched, aliases) ==
    IF fetched = <<>> THEN stats
    ELSE FoldWorklogs(AddWorklog(stats, GetProjectName(aliases, Head(fetched).issue),
                                 Head(fetched)),
                      Tail(fetched), aliases)

\* sorted(..., reverse=True) that puts a project before those of the same total
InsertBeforeEqual(sorted, entry) ==
    LET before == {i \in 1..Len(sorted) :
                      sorted[i][2].timeSpentSeconds > entry[2].timeSpentSeconds}
    IN  SelectAt(sorted, before) \o <<entry>> \o SelectAt(sorted, (1..Len(sorted)) \ before)

\* one insertion of sorted(stats, key=total, reverse=True): the sort is stable,
\* a project goes behind those of the same total that came before it
InsertByTotal(sorted, entry) ==
    LET before == {i \in 1..Len(sorted) :
                      sorted[i][2].timeSpentSeconds >= entry[2].timeSpentSeconds}
    IN  SelectAt(sorted, before) \o <<entry>> \o SelectAt(sorted, (1..Len(sorted)) \ before)

RECURSIVE SortedByTotal(_, _)
SortedByTotal(sorted, stats) ==
    IF stats = <<>> THEN sorted
    ELSE SortedByTotal(InsertByTotal(sorted, Head(stats)), Tail(stats))

RECURSIVE SumOf(_)
SumOf(numbers) == IF numbers = <<>> THEN 0 ELSE Head(numbers) + SumOf(Tail(numbers))

SecondsOf(entries) == [i \in 1..Len(entries) |-> entries[i][2].timeSpentSeconds]

SparklineMaximum == 8

\* lines 148-152
AxisLabelsOf(a, stats, range) ==
    IF a.show_sparkline /\ stats # <<>>
    THEN GenerateAxisLabels(range[1], range[2], DetermineDateRangeType(range[1], range[2]))
    ELSE <<>>

\* lines 177-185: the lines of the days of a project
DayLines(days) ==
    [i \in 1..Len(days) |->
        <<"day", days[i][1], days[i][2].timeSpentSeconds, days[i][2].comments>>]

\* lines 155-185: the line of a project, with its sparkline, and those of its days
ProjectLines(a, entry, range) ==
    << <<"project", entry[1], entry[2].timeSpentSeconds,
         IF a.show_sparkline
         THEN Some(GenerateWorkdaySparkline(
                       [date \in DictKeys(entry[2].days) |->
                           DictGet(entry[2].days, date).timeSpentSeconds],
                       range[1], range[2], SparklineMaximum))
         ELSE None>> >>
        \o (IF a.verbose THEN DayLines(entry[2].days) ELSE <<>>)

RECURSIVE AllProjectLines(_, _, _)
AllProjectLines(a, sorted, range) ==
    IF sorted = <<>> THEN <<>>
    ELSE ProjectLines(a, Head(sorted), range) \o AllProjectLines(a, Tail(sorted), range)

\* lines 187-198: the total, with the axis labels behind it when there are any
TotalLine(a, stats, axis_labels) ==
    IF axis_labels # <<>> /\ a.show_sparkline
    THEN <<"total", SumOf(SecondsOf(stats)), axis_labels>>
    ELSE <<"total", SumOf(SecondsOf(stats)), <<>>>>

\* cmd_stats, from the range it resolved and the stats it folded
StatsReport(a, range, fetched, stats) ==
    [cmd |-> "stats", from_date |-> range[1], to_date |-> range[2],
     fetched |-> fetched, stats |-> stats,
     lines |-> << <<"period">> >>
                   \o AllProjectLines(a, SortedByTotal(<<>>, stats), range)
                   \o << <<"rule">>, TotalLine(a, stats, AxisLabelsOf(a, stats, range)) >>]

CmdStatsOn(a, range) ==
    StatsReport(a, range, WorklogsBetween(a.store, range[1], range[2]),
                FoldWorklogs(<<>>, WorklogsBetween(a.store, range[1], range[2]), a.aliases))

CmdStats(a) == CmdStatsOn(a, ResolveRange(a))

\* cmd_list: one row a worklog and the sum of their times
ListRows(fetched, aliases) ==
    [i \in 1..Len(fetched) |->
        <<"row", fetched[i].day, fetched[i].timeSpentSeconds,
          GetProjectName(aliases, fetched[i].issue), fetched[i].issue, fetched[i].comment>>]

ListReport(a, range, fetched) ==
    [cmd |-> "list", from_date |-> range[1], to_date |-> range[2],
     fetched |-> fetched, stats |-> <<>>,
     lines |-> ListRows(fetched, a.aliases)
                   \o << <<"total", SumOf([i \in 1..Len(fetched) |->
                                              fetched[i].timeSpentSeconds]), <<>>>> >>]

CmdListOn(a, range) == ListReport(a, range, WorklogsBetween(a.store, range[1], range[2]))

CmdList(a) == CmdListOn(a, ResolveRange(a))
-----------------------------------------------------------------------------
(* The configuration (cli/config.py, commands/config.py).  A file is None   *)
(* when it does not exist and else holds the dict dotenv reads from it.     *)

\* dotenv.dotenv_values(fp): a file that does not exist reads as empty
DotenvValues(file) == IF file = None THEN <<>> ELSE Val(file)

\* dotenv.set_key(fp, key, value): creates the file when there is none
SetKey(file, key, value) == Some(DictSet(DotenvValues(file), key, value))

\* dotenv.unset_key(fp, key)
UnsetKey(file, key) ==
    Some(SelectAt(Val(file), {i \in 1..Len(Val(file)) : Val(file)[i][1] # key}))

\* load_dotenv(fp, override=False): the variables already set stay
LoadDotenv(environ, file) ==
    LET values == DotenvValues(file)
    IN  environ \o SelectAt(values, {i \in 1..Len(values) :
                                        values[i][1] \notin DictKeys(environ)})

\* load (config.py 82-89): the local file first, the system file behind it
Load(environ, files) == LoadDotenv(LoadDotenv(environ, files.local), files.system)

\* lines 74-87: the files the command works on, where the system file comes first
ConfigFilesSystemFirst(system, files) ==
    IF system = Some(TRUE) THEN <<"system">>
    ELSE IF system = Some(FALSE) THEN <<"local">>
    ELSE <<"system">> \o (IF files.local # None THEN <<"local">> ELSE <<>>)

\* lines 74-87: the files the command works on, in the order it tries them;
\* "local" is the closest local file, or the one of the working directory
ConfigFiles(system, files) ==
    IF system = Some(TRUE) THEN <<"system">>
    ELSE IF system = Some(FALSE) THEN <<"local">>
    ELSE (IF files.local # None THEN <<"local">> ELSE <<>>) \o <<"system">>

\* the files of fps that hold key
Holding(fps, files, key) ==
    SelectSeq(fps, LAMBDA fp : key \in DictKeys(DotenvValues(files[fp])))

\* lines 91-94: config KEY VALUE
ConfigSet(fps, files, key, value) ==
    [files |-> [files EXCEPT ![fps[1]] = SetKey(files[fps[1]], key, value)],
     printed |-> <<>>]

\* lines 95-100: config KEY --unset
ConfigUnsetKey(holding, files, key) ==
    [files |-> IF holding = <<>> THEN files
               ELSE [files EXCEPT ![holding[1]] = UnsetKey(files[holding[1]], key)],
     printed |-> <<>>]

\* lines 101-105: config KEY
ConfigGet(holding, files, key) ==
    [files |-> files,
     printed |-> IF holding = <<>> THEN <<>>
                 ELSE << <<"value", DictGet(DotenvValues(files[holding[1]]), key)>> >>]

\* line 122, over the files that exist, in order: {**this_config, **final_config}
RECURSIVE MergeConfigs(_, _, _)
MergeConfigs(fps, files, final_config) ==
    IF fps = <<>> THEN final_config
    ELSE MergeConfigs(Tail(fps), files,
                      IF files[Head(fps)] = None THEN final_config
                      ELSE DictUpdate(DotenvValues(files[Head(fps)]), final_config))

\* lines 108-127 without --unset: config
ConfigList(fps, files) ==
    [files |-> files,
     printed |-> IF MergeConfigs(fps, files, <<>>) # <<>>
                 THEN << <<"json", MergeConfigs(fps, files, <<>>)>> >>
                 ELSE << <<"warning">> >>]

\* lines 110-120: config --unset, answers being what the user says to the
\* question about each file
RECURSIVE ConfigUnsetAll(_, _, _, _, _)
ConfigUnsetAll(fps, files, force, answers, printed) ==
    IF fps = <<>> THEN [files |-> files, printed |-> printed]
    ELSE IF files[Head(fps)] = None
         THEN ConfigUnsetAll(Tail(fps), files, force, answers, printed)
         ELSE ConfigUnsetAll(
                  Tail(fps),
                  IF force \/ answers[Head(fps)] THEN [files EXCEPT ![Head(fps)] = None]
                  ELSE files,
                  force, answers,
                  printed
                      \o (IF force THEN <<>>
                          ELSE << <<"json", DotenvValues(files[Head(fps)])>> >>)
                      \o (IF force \/ answers[Head(fps)] THEN << <<"reset">> >> ELSE <<>>))

\* config (commands/config.py 26-127) on the files fps
ConfigOn(a, fps, files) ==
    IF a.key # None
    THEN IF a.value # None THEN ConfigSet(fps, files, Val(a.key), Val(a.value))
         ELSE IF a.unset THEN ConfigUnsetKey(Holding(fps, files, Val(a.key)), files, Val(a.key))
         ELSE ConfigGet(Holding(fps, files, Val(a.key)), files, Val(a.key))
    ELSE IF a.unset THEN ConfigUnsetAll(fps, files, a.force, a.answers, <<>>)
         ELSE ConfigList(fps, files)

Config(a, files) == ConfigOn(a, ConfigFiles(a.system, files), files)

MaxSparkDay == 8

SparkDays == 0..MaxSparkDay

SparkHours == {0, 1, 4, 8}

\* the daily totals handed to the sparkline: at most two days carry an entry
DailyDataArgs ==
    UNION {[{DateStr(d) : d \in days} -> SparkHours] :
              days \in {ds \in SUBSET SparkDays : Cardinality(ds) <= 2}}

NoSparkArgs == [daily_data |-> <<>>, from_date |-> 0, to_date |-> 0, installed |-> FALSE]

NoOptions == [day |-> 0, start |-> None, end |-> None, message |-> None, yes |-> FALSE]

MaxStatsWorklogs == 3

\* the worklogs the tracker may hold: two of one issue on Tuesday 2024-02-13,
\* one of another issue the day after, one on Saturday 2024-02-10
WorklogTemplates ==
    {[issue |-> T1, day |-> 43, timeSpentSeconds |-> 2, comment |-> <<"a">>],
     [issue |-> T1, day |-> 43, timeSpentSeconds |-> 1, comment |-> <<"b">>],
     [issue |-> T9, day |-> 44, timeSpentSeconds |-> 2, comment |-> <<"a">>],
     [issue |-> T3, day |-> 40, timeSpentSeconds |-> 3, comment |-> <<"a">>]}

WithIds(templates) ==
    [i \in 1..Len(templates) |->
        [id |-> i, issue |-> templates[i].issue, day |-> templates[i].day,
         timeSpentSeconds |-> templates[i].timeSpentSeconds,
         comment |-> templates[i].comment]]

StatsStores ==
    UNION {{WithIds(templates) : templates \in [1..n -> WorklogTemplates]} :
              n \in 0..MaxStatsWorklogs}

\* the aliases of ctx.obj: none, or the name T-9 given to the issue T-1
StatsAliases == {<<>>, << <<T9, T1>> >>}

\* the range arguments: a name on Thursday 2024-02-15 or on Tuesday 2025-02-04,
\* or --from with or without --to
StatsRangeArgs ==
    [date_range : RangeNames \ {"last-year"}, from_date : {None}, to_date : {None},
     today : {45}]
        \cup [date_range : RangeNames, from_date : {None}, to_date : {None}, today : {400}]
        \cup [date_range : {"month"}, from_date : {Some(31), Some(40), Some(46)},
              to_date : {None, Some(41), Some(45)}, today : {45}]

StatsArgs ==
    {[date_range |-> r.date_range, from_date |-> r.from_date, to_date |-> r.to_date,
      today |-> r.today, store |-> store, aliases |-> aliases,
      show_sparkline |-> show_sparkline, verbose |-> verbose] :
        r \in StatsRangeArgs, store \in StatsStores, aliases \in StatsAliases,
        show_sparkline \in BOOLEAN, verbose \in BOOLEAN}

ListArgs == {a \in StatsArgs : a.show_sparkline /\ ~ a.verbose}

NoStatsArgs ==
    [date_range |-> "", from_date |-> None, to_date |-> None, today |-> 0, store |-> <<>>,
     aliases |-> <<>>, show_sparkline |-> FALSE, verbose |-> FALSE]

NoReport ==
    [cmd |-> "", from_date |-> 0, to_date |-> 0, fetched |-> <<>>, stats |-> <<>>,
     lines |-> <<>>]

MaxRangeDay == 64

RangeDays == 0..MaxRangeDay

NoRangeArgs == [fn |-> "", from_date |-> 0, to_date |-> 0, range_type |-> ""]

MaxConfigCmds == 2

ConfigKeys == {"JIRA_USER", "LT_LOG_ISSUE"}

ConfigValues == {<<"a">>, <<"b">>}

LocalFiles == {None, Some(<< <<"JIRA_USER", <<"a">>>> >>)}

SystemFiles ==
    {None, Some(<< <<"JIRA_USER", <<"b">>>> >>),
     Some(<< <<"LT_LOG_ISSUE", <<"a">>>>, <<"JIRA_USER", <<"b">>>> >>)}

Environs == {<<>>, << <<"JIRA_USER", <<"e">>>> >>}

NoAnswers == [fp \in {"local", "system"} |-> FALSE]

\* the command lines of config: KEY VALUE, KEY, KEY --unset, nothing, --unset
ConfigArgs ==
    [key : {Some(k) : k \in ConfigKeys}, value : {Some(v) : v \in ConfigValues},
     system : {None, Some(TRUE), Some(FALSE)}, unset : {FALSE}, force : {FALSE},
     answers : {NoAnswers}]
        \cup [key : {Some(k) : k \in ConfigKeys}, value : {None},
              system : {None, Some(TRUE), Some(FALSE)}, unset : BOOLEAN, force : {FALSE},
              answers : {NoAnswers}]
        \cup [key : {None}, value : {None}, system : {None, Some(TRUE), Some(FALSE)},
              unset : {FALSE}, force : {FALSE}, answers : {NoAnswers}]
        \cup [key : {None}, value : {None}, system : {None, Some(TRUE), Some(FALSE)},
              unset : {TRUE}, force : {TRUE}, answers : {NoAnswers}]
        \cup [key : {None}, value : {None}, system : {None, Some(TRUE), Some(FALSE)},
              unset : {TRUE}, force : {FALSE},
              answers : [{"local", "system"} -> BOOLEAN]]

NoConfigArgs ==
    [args |-> [key |-> None, value |-> None, system |-> None, unset |-> FALSE,
               force |-> FALSE, answers |-> NoAnswers],
     environ |-> <<>>]

-----------------------------------------------------------------------------
(* The main callback (main.py 40-123) and the keyring.  The keyring maps a   *)
(* user to the token stored for it; a token is a string the tracker knows    *)
(* as some user's, or does not know.                                         *)

Users == {"ann", "bob"}

Tokens == {"token of ann", "token of bob", "expired"}

\* _jira.myself(client): the name of the user the token belongs to, None
\* standing for the JIRAError of a token the tracker does not accept
Myself(token) ==
    CASE token = "token of ann" -> Some("ann")
      [] token = "token of bob" -> Some("bob")
      [] OTHER                  -> None

\* the subcommands the callback sets the client and the user up for (line 81);
\* "*" is what click gives for chained commands
TrackerSubcommands == {"log", "issues", "list", "projects", "init", "*"}

\* the subcommands of the program, "" for none
Subcommands ==
    {"", "log", "logm", "list", "stats", "budget", "issues", "projects", "init",
     "alias", "config", "reset"}

\* the subcommands whose body reads ctx.obj.jira or ctx.obj.myself
ContextReaders == {"log", "logm", "list", "stats", "budget", "issues", "projects", "init"}

\* lines 84-88: the keyring is asked when no token was given and JIRA_USER is set
KeyringAsked(i) == i.token = None /\ i.user # None

KeyringHit(i, kr) == KeyringAsked(i) /\ kr[Val(i.user)] # None

\* lines 84-100: the token main goes on with
TokenOf(i, kr) ==
    IF i.token # None THEN Val(i.token)
    ELSE IF KeyringHit(i, kr) THEN Val(kr[Val(i.user)])
    ELSE i.prompt

\* persist_token as the command line gave it
PersistTokenAsGiven(i, kr) == i.persist_token

\* line 89: a token read from the keyring is not stored again
PersistToken(i, kr) == IF KeyringHit(i, kr) THEN FALSE ELSE i.persist_token

\* lines 84-100: what main does to get the token
TokenEvents(i, kr) ==
    (IF KeyringAsked(i) THEN << <<"keyring_get", Val(i.user), kr[Val(i.user)]>> >> ELSE <<>>)
        \o (IF i.token = None /\ ~ KeyringHit(i, kr) THEN << <<"prompt", i.prompt>> >>
            ELSE <<>>)

NoClient == [jira |-> None, myself |-> None]

\* main: the callback, on the command line i with the keyring kr
Main(i, kr) ==
    LET token == TokenOf(i, kr)
    IN  IF i.subcommand \notin TrackerSubcommands
        THEN [events |-> << <<"return">> >>, keyring |-> kr, obj |-> NoClient,
              pc |-> "returned"]
        ELSE IF ~ i.connects
        THEN [events |-> TokenEvents(i, kr)
                             \o << <<"connect", token, FALSE>>, <<"error", "connect">> >>,
              keyring |-> kr, obj |-> NoClient, pc |-> "exited"]
        ELSE IF Myself(token) = None
        THEN [events |-> TokenEvents(i, kr)
                             \o << <<"connect", token, TRUE>>, <<"myself", token, FALSE>>,
                                   <<"error", "authenticate">> >>,
              keyring |-> kr, obj |-> [jira |-> Some(token), myself |-> None],
              pc |-> "exited"]
        ELSE [events |-> TokenEvents(i, kr)
                             \o << <<"connect", token, TRUE>>, <<"myself", token, TRUE>>,
                                   <<"config", "JIRA_USER", Val(Myself(token))>> >>
                             \o (IF PersistToken(i, kr)
                                 THEN << <<"keyring_set", Val(Myself(token)), token>> >>
                                 ELSE <<>>),
              keyring |-> IF PersistToken(i, kr)
                          THEN [kr EXCEPT ![Val(Myself(token))] = Some(token)]
                          ELSE kr,
              obj |-> [jira |-> Some(token), myself |-> Myself(token)],
              pc |-> "returned"]

\* the subcommand click invokes once the callback has returned: it runs, or it
\* breaks where it reads a client or a user that was never set
Subcommand(r, subcommand) ==
    IF r.pc # "returned" \/ subcommand = "" THEN r
    ELSE [r EXCEPT !.events =
             Append(@, <<"subcommand", subcommand,
                         IF subcommand \in ContextReaders
                            /\ (r.obj.jira = None \/ r.obj.myself = None)
                         THEN "crashed" ELSE "ran">>)]

\* runs of main
MaxMainCmds == 2

\* every subcommand with a token stored or asked for, and log with every way
\* of giving the token, of reaching the tracker and of being known to it
MainArgs ==
    [subcommand : Subcommands \cup {"*"}, token : {None}, user : {Some("ann")},
     prompt : {"token of ann"}, connects : {TRUE}, persist_token : {TRUE}]
        \cup [subcommand : {"log"}, token : {None} \cup {Some(t) : t \in Tokens},
              user : {None} \cup {Some(u) : u \in Users}, prompt : Tokens,
              connects : BOOLEAN, persist_token : BOOLEAN]

NoMainArgs ==
    [subcommand |-> "", token |-> None, user |-> None, prompt |-> "", connects |-> FALSE,
     persist_token |-> FALSE]

NoMainRun == [events |-> <<>>, obj |-> NoClient, pc |-> ""]

-----------------------------------------------------------------------------
(* The state *)

VARIABLES
    aliasFile,   \* the aliases file: a dict, <<>> when the file does not exist
    worklogs,    \* the booking service's worklogs of the day
    envStart,    \* LT_LOG_START of the user's environment, None when unset
    out,         \* what the commands did and printed, oldest first
    pc,          \* "idle", a prompt ("dym", "continue") or how the command ended
    ctx,         \* ctx.obj as the main callback left it
    args,        \* the arguments of the running log_time
    loc,         \* its locals at the prompt
    depth,       \* nested 'Did you mean' re-invocations
    todo,        \* logm's entries still to come
    opts,        \* logm's options
    nAlias,      \* alias commands run so far
    sparkIn,     \* the arguments of the last sparkline call
    sparkOut,    \* and what it returned
    statsIn,     \* the arguments of the last list or stats
    statsOut,    \* the range it worked on, what it fetched, folded and printed
    rangeIn,     \* the arguments of the last call of the classifier or the labels
    rangeOut,    \* and what it returned
    configFiles, \* the local and the system configuration file
    environ,     \* os.environ after config.load()
    configIn,    \* the arguments of the last config and the environment it started in
    configOut,   \* what it printed
    nConfig,     \* config commands run so far
    aliasProcs,  \* the alias invocations running side by side: where each is, what it read
    aliasSteps,  \* the order in which they read and wrote the alias file
    keyring,     \* the system keyring: the token stored for each user, if any
    mainIn,      \* the command line and the surroundings of the last run of main
    mainOut,     \* what main did, what it left in ctx.obj, how the subcommand fared
    nMain        \* runs of main so far

cliVars == <<aliasFile, worklogs, envStart, out, pc, ctx, args, loc, depth, todo, opts, nAlias>>

sparkVars == <<sparkIn, sparkOut>>

statsVars == <<statsIn, statsOut>>

rangeVars == <<rangeIn, rangeOut>>

configVars == <<configFiles, environ, configIn, configOut, nConfig>>

raceVars == <<aliasProcs, aliasSteps>>

mainVars == <<keyring, mainIn, mainOut, nMain>>

reportVars == <<sparkVars, statsVars, rangeVars, configVars, raceVars, mainVars>>

vars == <<cliVars, reportVars>>

Machine ==
    [worklogs |-> worklogs, out |-> out, pc |-> pc, args |-> args, loc |-> loc,
     depth |-> depth, todo |-> todo]

Install(m) ==
    /\ worklogs' = m.worklogs
    /\ out' = m.out
    /\ pc' = m.pc
    /\ args' = m.args
    /\ loc' = m.loc
    /\ depth' = m.depth
    /\ todo' = m.todo

\* alias._read_aliases / _write_aliases: the file holds the dict as JSON
ReadAliases(file) == file

WriteAliasesMerging(file, aliases) == DictUpdate(file, aliases)

\* _write_aliases (alias.py 19-20): open('w') empties the file, the dict given
\* is all it holds afterwards
WriteAliases(file, aliases) == aliases

\* main (main.py 61-123): loads the aliases; the client and the user are set up
\* for the subcommands of line 81 alone
MainCallback(subcommand, file) ==
    [aliases |-> ReadAliases(file), authed |-> subcommand \in TrackerSubcommands,
     invoked_subcommand |-> subcommand]

NoCtx == [aliases |-> <<>>, authed |-> FALSE, invoked_subcommand |-> ""]

NoFiles == [local |-> None, system |-> None]

\* the alias invocations that run side by side
AliasProcs == {1, 2}

NoAliasProc == [pc |-> "start", issue |-> None, name |-> <<>>, aliases |-> <<>>]

\* main has not run, the keyring is empty
MainIdle ==
    /\ keyring = [u \in Users |-> None]
    /\ mainIn = NoMainArgs
    /\ mainOut = NoMainRun
    /\ nMain = 0

\* no alias invocation has started
RaceIdle ==
    /\ aliasProcs = [p \in AliasProcs |-> NoAliasProc]
    /\ aliasSteps = <<>>

\* nothing listed, classified or configured so far
ReportsIdle ==
    /\ statsIn = NoStatsArgs
    /\ statsOut = NoReport
    /\ rangeIn = NoRangeArgs
    /\ rangeOut = <<>>
    /\ configFiles = NoFiles
    /\ environ = <<>>
    /\ configIn = NoConfigArgs
    /\ configOut = <<>>
    /\ nConfig = 0
    /\ RaceIdle
    /\ MainIdle

Init ==
    /\ aliasFile = <<>>
    /\ worklogs \in InitialWorklogs
    /\ envStart \in EnvStarts
    /\ out = <<>>
    /\ pc = "idle"
    /\ ctx = NoCtx
    /\ args = NoArgs
    /\ loc = NoLocals
    /\ depth = 0
    /\ todo = <<>>
    /\ opts = NoOptions
    /\ nAlias = 0
    /\ sparkIn = NoSparkArgs
    /\ sparkOut = <<>>
    /\ ReportsIdle

-----------------------------------------------------------------------------
(* The commands *)

\* alias (alias.py 23-39)
AliasCmd(issue, name, overwrite) ==
    LET aliases == ReadAliases(aliasFile)
    IN  /\ pc = "idle"
        /\ nAlias < MaxAliasCmds
        /\ nAlias' = nAlias + 1
        /\ IF issue = None
           THEN /\ out' = Append(out, <<"aliases", aliases>>)
                /\ UNCHANGED aliasFile
           ELSE IF Val(issue) \in DictKeys(aliases) /\ ~ overwrite
                THEN UNCHANGED <<aliasFile, out>>
                ELSE /\ aliasFile' = WriteAliases(aliasFile, DictSet(aliases, Val(issue), name))
                     /\ out' = Append(out, <<"alias_created", Val(issue), name>>)
        /\ UNCHANGED <<worklogs, envStart, pc, ctx, args, loc, depth, todo, opts, reportVars>>

\* lines 78-89: the arguments of the re-invocation
ReinvokeArgs(a, suggested) == [a EXCEPT !.issue = suggested]

\* lt log
LogCmd(a) ==
    LET c == MainCallback("log", aliasFile)
    IN  /\ pc = "idle"
        /\ ctx' = c
        /\ Install(LogmLoop(StartLog(Machine, a, c, envStart), c, envStart, NoOptions))
        /\ UNCHANGED <<aliasFile, envStart, opts, nAlias, reportVars>>

\* lt logm
LogmCmd(entries, o) ==
    LET c == MainCallback("logm", aliasFile)
    IN  /\ pc = "idle"
        /\ ctx' = c
        /\ opts' = o
        /\ Install(LogmLoop([Machine EXCEPT !.todo = Split(entries, ","), !.pc = "returned"],
                            c, envStart, o))
        /\ UNCHANGED <<aliasFile, envStart, nAlias, reportVars>>

\* the user answers 'Did you mean ...?' (lines 77-90)
AnswerDidYouMean(yes) ==
    /\ pc = "dym"
    /\ yes => depth < MaxDepth
    /\ LET m == [Machine EXCEPT !.out = Append(@, <<"answer", yes>>)]
       IN  Install(LogmLoop(
               IF yes
               THEN StartLog([m EXCEPT !.depth = @ + 1], ReinvokeArgs(args, loc.suggested),
                             ctx, envStart)
               ELSE [m EXCEPT !.pc = "returned"],
               ctx, envStart, opts))
    /\ UNCHANGED <<aliasFile, envStart, ctx, opts, nAlias, reportVars>>

\* the user answers 'Continue?' (lines 139-146)
AnswerContinue(yes) ==
    /\ pc = "continue"
    /\ LET m == [Machine EXCEPT !.out = Append(@, <<"answer", yes>>)]
       IN  Install(LogmLoop(
               IF Confirmed(args.yes, yes)
               THEN CreateWorklog(m, loc.issue, loc.started, loc.duration)
               ELSE [m EXCEPT !.pc = "returned"],
               ctx, envStart, opts))
    /\ UNCHANGED <<aliasFile, envStart, ctx, opts, nAlias, reportVars>>

\* one call of generate_sparkline_from_daily_data
Sparkline(daily_data, from_date, to_date, installed) ==
    /\ sparkIn = NoSparkArgs
    /\ sparkIn' = [daily_data |-> daily_data, from_date |-> from_date,
                   to_date |-> to_date, installed |-> installed]
    /\ sparkOut' = GenerateSparkline(daily_data, from_date, to_date, installed)
    /\ UNCHANGED <<cliVars, statsVars, rangeVars, configVars, raceVars, mainVars>>

Next ==
    \/ \E issue \in AliasIssueArgs, name \in AliasNameArgs, overwrite \in BOOLEAN :
          AliasCmd(issue, name, overwrite)
    \/ \E a \in LogArgs : LogCmd(a)
    \/ \E entries \in EntriesArgs, o \in LogmOptions : LogmCmd(entries, o)
    \/ \E yes \in BOOLEAN : AnswerDidYouMean(yes)
    \/ \E yes \in BOOLEAN : AnswerContinue(yes)

Spec == Init /\ [][Next]_vars

\* the sparkline on its own, tried on every range and every daily total
SparkNext ==
    /\ sparkIn = NoSparkArgs
    /\ \E daily_data \in DailyDataArgs, from_date \in SparkDays, to_date \in SparkDays,
          installed \in BOOLEAN :
           Sparkline(daily_data, from_date, to_date, installed)

SparkInit ==
    /\ aliasFile = <<>>
    /\ worklogs = <<>>
    /\ envStart = None
    /\ out = <<>>
    /\ pc = "idle"
    /\ ctx = NoCtx
    /\ args = NoArgs
    /\ loc = NoLocals
    /\ depth = 0
    /\ todo = <<>>
    /\ opts = NoOptions
    /\ nAlias = 0
    /\ sparkIn = NoSparkArgs
    /\ sparkOut = <<>>
    /\ ReportsIdle

SpecSpark == SparkInit /\ [][SparkNext]_vars

\* no log, logm or alias command has run
CliIdle ==
    /\ aliasFile = <<>>
    /\ worklogs = <<>>
    /\ envStart = None
    /\ out = <<>>
    /\ pc = "idle"
    /\ ctx = NoCtx
    /\ args = NoArgs
    /\ loc = NoLocals
    /\ depth = 0
    /\ todo = <<>>
    /\ opts = NoOptions
    /\ nAlias = 0

\* lt stats (stats.py 75-198)
StatsCmd(a) ==
    /\ statsIn = NoStatsArgs
    /\ statsIn' = a
    /\ statsOut' = CmdStats(a)
    /\ UNCHANGED <<cliVars, sparkVars, rangeVars, configVars, raceVars, mainVars>>

\* lt list (stats.py 22-72)
ListCmd(a) ==
    /\ statsIn = NoStatsArgs
    /\ statsIn' = a
    /\ statsOut' = CmdList(a)
    /\ UNCHANGED <<cliVars, sparkVars, rangeVars, configVars, raceVars, mainVars>>

\* list and stats on their own, on every range and every store of worklogs
StatsNext ==
    \/ /\ statsIn = NoStatsArgs
       /\ \E a \in StatsArgs : StatsCmd(a)
    \/ /\ statsIn = NoStatsArgs
       /\ \E a \in ListArgs : ListCmd(a)

\* no command has run and no function was called
IdleInit ==
    /\ CliIdle
    /\ sparkIn = NoSparkArgs
    /\ sparkOut = <<>>
    /\ ReportsIdle

SpecStats == IdleInit /\ [][StatsNext]_vars

\* worklogs of one issue on Tuesday 2024-02-13, on Thursday 2025-02-13 and on
\* Friday 2025-02-14
YearTemplates ==
    {[issue |-> T1, day |-> 43, timeSpentSeconds |-> 2, comment |-> <<"a">>],
     [issue |-> T1, day |-> 409, timeSpentSeconds |-> 1, comment |-> <<"b">>],
     [issue |-> T1, day |-> 410, timeSpentSeconds |-> 3, comment |-> <<"a">>]}

YearStores ==
    UNION {{WithIds(templates) : templates \in [1..n -> YearTemplates]} :
              n \in 0..MaxStatsWorklogs}

\* lt stats --from 10.2.2024 (or 13.2.2024) --to 13.2.2025 (or 14.2.2025)
YearStatsArgs ==
    {[date_range |-> "month", from_date |-> Some(from_date), to_date |-> Some(to_date),
      today |-> 410, store |-> store, aliases |-> <<>>,
      show_sparkline |-> show_sparkline, verbose |-> verbose] :
        from_date \in {40, 43}, to_date \in {409, 410}, store \in YearStores,
        show_sparkline \in BOOLEAN, verbose \in BOOLEAN}

\* stats on ranges of more than a year
YearsNext ==
    /\ statsIn = NoStatsArgs
    /\ \E a \in YearStatsArgs : StatsCmd(a)

SpecYears == IdleInit /\ [][YearsNext]_vars

\* one call of determine_date_range_type
ClassifyRange(from_date, to_date) ==
    /\ rangeIn = NoRangeArgs
    /\ rangeIn' = [fn |-> "determine_date_range_type", from_date |-> from_date,
                   to_date |-> to_date, range_type |-> ""]
    /\ rangeOut' = <<DetermineDateRangeType(from_date, to_date)>>
    /\ UNCHANGED <<cliVars, sparkVars, statsVars, configVars, raceVars, mainVars>>

\* one call of generate_axis_labels
LabelRange(from_date, to_date, range_type) ==
    /\ rangeIn = NoRangeArgs
    /\ rangeIn' = [fn |-> "generate_axis_labels", from_date |-> from_date,
                   to_date |-> to_date, range_type |-> range_type]
    /\ rangeOut' = GenerateAxisLabels(from_date, to_date, range_type)
    /\ UNCHANGED <<cliVars, sparkVars, statsVars, configVars, raceVars, mainVars>>

\* the classifier and the labels on their own, on every pair of dates
RangeNext ==
    \/ /\ rangeIn = NoRangeArgs
       /\ \E from_date \in RangeDays, to_date \in RangeDays :
              ClassifyRange(from_date, to_date)
    \/ /\ rangeIn = NoRangeArgs
       /\ \E from_date \in RangeDays, to_date \in RangeDays, range_type \in RangeTypes :
              LabelRange(from_date, to_date, range_type)

SpecRange == IdleInit /\ [][RangeNext]_vars

\* lt config (commands/config.py 26-127), after the config.load() of main.py:20
\* in a process started with the environment environ0
ConfigCmd(a, environ0) ==
    /\ nConfig < MaxConfigCmds
    /\ nConfig' = nConfig + 1
    /\ configIn' = [args |-> a, environ |-> environ0]
    /\ environ' = Load(environ0, configFiles)
    /\ configFiles' = Config(a, configFiles).files
    /\ configOut' = Config(a, configFiles).printed
    /\ UNCHANGED <<cliVars, sparkVars, statsVars, rangeVars, raceVars, mainVars>>

ConfigNext ==
    /\ nConfig < MaxConfigCmds
    /\ \E a \in ConfigArgs, environ0 \in Environs : ConfigCmd(a, environ0)

ConfigInit ==
    /\ CliIdle
    /\ sparkIn = NoSparkArgs
    /\ sparkOut = <<>>
    /\ statsIn = NoStatsArgs
    /\ statsOut = NoReport
    /\ rangeIn = NoRangeArgs
    /\ rangeOut = <<>>
    /\ configFiles \in [local : LocalFiles, system : SystemFiles]
    /\ environ = <<>>
    /\ configIn = NoConfigArgs
    /\ configOut = <<>>
    /\ nConfig = 0
    /\ RaceIdle
    /\ MainIdle

SpecConfig == ConfigInit /\ [][ConfigNext]_vars

\* the commands that have come to their end
ProcessesEnded == Cardinality({i \in 1..Len(out) : out[i][1] = "process_end"})

\* the process of a log or logm command has ended and the user starts the next
\* one: main (main.py 61-123) runs again, the tracker keeps the day's worklogs
NewInvocation ==
    /\ pc \in {"done", "exited", "crashed"}
    /\ ProcessesEnded + 1 < MaxInvocations
    /\ out' = Append(out, <<"process_end", pc>>)
    /\ pc' = "idle"
    /\ ctx' = NoCtx
    /\ args' = NoArgs
    /\ loc' = NoLocals
    /\ depth' = 0
    /\ todo' = <<>>
    /\ opts' = NoOptions
    /\ UNCHANGED <<aliasFile, worklogs, envStart, nAlias, reportVars>>

\* one day's commands one after the other: log of 1h, 4h or 6h on a known
\* issue, with --start 12 or not, one with --end before the start, and logm
DayLogArgs ==
    [duration : {1, 4, 6}, issue : {T1}, day : DayArgs, start : {None, Some(12)},
     end : {None}, lunch : {None}, message : {None}, yes : BOOLEAN]
    \cup
    [duration : {1}, issue : {T1}, day : DayArgs, start : {None}, end : {Some(10)},
     lunch : {None}, message : {None}, yes : {TRUE}]

DayEntriesArgs == {T1 \o <<":", "1">>, T1 \o <<":", "4">> \o <<",">> \o T1 \o <<":", "6">>}

DayNext ==
    \/ \E a \in DayLogArgs : LogCmd(a)
    \/ \E entries \in DayEntriesArgs : LogmCmd(entries, [NoOptions EXCEPT !.yes = TRUE])
    \/ \E yes \in BOOLEAN : AnswerContinue(yes)
    \/ NewInvocation

\* the day holds nothing, 3h, 9h, or 11h before the first command
DayInit ==
    /\ aliasFile = <<>>
    /\ worklogs \in {<<>>, <<Worklog(<<9, 3>>)>>, <<Worklog(<<9, 9>>)>>,
                     <<Worklog(<<9, 9>>), Worklog(<<23, 2>>)>>}
    /\ envStart = None
    /\ out = <<>>
    /\ pc = "idle"
    /\ ctx = NoCtx
    /\ args = NoArgs
    /\ loc = NoLocals
    /\ depth = 0
    /\ todo = <<>>
    /\ opts = NoOptions
    /\ nAlias = 0
    /\ sparkIn = NoSparkArgs
    /\ sparkOut = <<>>
    /\ ReportsIdle

SpecDay == DayInit /\ [][DayNext]_vars

\* alias (alias.py 30-35) in the invocation p, up to the point where it has
\* read the file and either is done (the listing) or is about to write
AliasRead(p, issue, name) ==
    /\ aliasProcs[p].pc = "start"
    /\ aliasProcs' = [aliasProcs EXCEPT ![p] =
                         [pc |-> IF issue = None THEN "done" ELSE "read", issue |-> issue,
                          name |-> name, aliases |-> ReadAliases(aliasFile)]]
    /\ aliasSteps' = aliasSteps \o <<<<"read", p>>>>
                                \o (IF issue = None THEN <<<<"list", p>>>> ELSE <<>>)
    /\ UNCHANGED <<cliVars, sparkVars, statsVars, rangeVars, configVars, mainVars>>

\* alias (alias.py 34-39) in the invocation p: the answer to 'Overwrite?' where
\* it is asked, and the write of the mapping p has read, with its own alias set
AliasWrite(p, overwrite) ==
    LET a == aliasProcs[p]
    IN  /\ a.pc = "read"
        /\ aliasProcs' = [aliasProcs EXCEPT ![p].pc = "done"]
        /\ IF Val(a.issue) \in DictKeys(a.aliases) /\ ~ overwrite
           THEN /\ aliasSteps' = Append(aliasSteps, <<"declined", p>>)
                /\ UNCHANGED aliasFile
           ELSE /\ aliasFile' = WriteAliases(aliasFile, DictSet(a.aliases, Val(a.issue), a.name))
                /\ aliasSteps' = Append(aliasSteps, <<"write", p>>)
        /\ UNCHANGED <<worklogs, envStart, out, pc, ctx, args, loc, depth, todo, opts, nAlias,
                       sparkVars, statsVars, rangeVars, configVars, mainVars>>

\* the alias file before the invocations start
AliasFiles == {<<>>, << <<T1, op>> >>}

\* alias invocations side by side, their reads and writes in every order
AliasNext ==
    \/ \E p \in AliasProcs, issue \in AliasIssueArgs, name \in AliasNameArgs :
           AliasRead(p, issue, name)
    \/ \E p \in AliasProcs, overwrite \in BOOLEAN : AliasWrite(p, overwrite)

AliasInit ==
    /\ aliasFile \in AliasFiles
    /\ worklogs = <<>>
    /\ envStart = None
    /\ out = <<>>
    /\ pc = "idle"
    /\ ctx = NoCtx
    /\ args = NoArgs
    /\ loc = NoLocals
    /\ depth = 0
    /\ todo = <<>>
    /\ opts = NoOptions
    /\ nAlias = 0
    /\ sparkIn = NoSparkArgs
    /\ sparkOut = <<>>
    /\ ReportsIdle

SpecAlias == AliasInit /\ [][AliasNext]_vars

\* one run of the program: the callback, and the subcommand where it comes to it
MainCmd(i) ==
    /\ nMain < MaxMainCmds
    /\ nMain' = nMain + 1
    /\ mainIn' = i
    /\ keyring' = Main(i, keyring).keyring
    /\ mainOut' = [events |-> Subcommand(Main(i, keyring), i.subcommand).events,
                   obj |-> Main(i, keyring).obj, pc |-> Main(i, keyring).pc]
    /\ UNCHANGED <<cliVars, sparkVars, statsVars, rangeVars, configVars, raceVars>>

MainNext ==
    /\ nMain < MaxMainCmds
    /\ \E i \in MainArgs : MainCmd(i)

\* the keyring holds nothing, or a token the tracker no longer accepts
MainInit ==
    /\ CliIdle
    /\ sparkIn = NoSparkArgs
    /\ sparkOut = <<>>
    /\ statsIn = NoStatsArgs
    /\ statsOut = NoReport
    /\ rangeIn = NoRangeArgs
    /\ rangeOut = <<>>
    /\ configFiles = NoFiles
    /\ environ = <<>>
    /\ configIn = NoConfigArgs
    /\ configOut = <<>>
    /\ nConfig = 0
    /\ RaceIdle
    /\ keyring \in {[u \in Users |-> None],
                    [u \in Users |-> IF u = "ann" THEN Some("expired") ELSE None]}
    /\ mainIn = NoMainArgs
    /\ mainOut = NoMainRun
    /\ nMain = 0

SpecMain == MainInit /\ [][MainNext]_vars

-----------------------------------------------------------------------------
(* Reading the record of what happened *)

IsEvent(i, kind) == out[i][1] = kind

EventsOf(kind) == {i \in 1..Len(out) : IsEvent(i, kind)}

RECURSIVE LastBefore(_, _)
\* the greatest index up to i in the set, 0 if there is none
LastBefore(i, indices) ==
    IF i = 0 \/ i \in indices THEN i ELSE LastBefore(i - 1, indices)

\* the log_time call event i belongs to, and the command's own call of it
RunStart(i) == LastBefore(i, EventsOf("log_time"))

TopStart(i) == LastBefore(i, {j \in EventsOf("log_time") : out[j][3] = 0})

-----------------------------------------------------------------------------
(* The daily cap *)

\* C1: an entry that would bring the day's total above 10h ends the command
\* with the cap error and nothing is booked after it; a total of exactly 10h
\* passes the check.  The total is the sum of the day's worklogs plus the
\* duration log_time printed.
C1_DailyCap ==
    /\ \A i \in EventsOf("cap_error") :
          /\ i = Len(out)
          /\ pc = "exited"
          /\ IsEvent(i - 1, "print")
          /\ SumSpent(worklogs) + out[i - 1][2] > CapHours
    /\ pc = "continue" =>
          /\ IsEvent(Len(out) - 1, "print")
          /\ SumSpent(worklogs) + out[Len(out) - 1][2] <= CapHours
    /\ \A k \in EventsOf("create") :
          /\ k = Len(out)
          /\ SumSpent(worklogs) <= CapHours

\* the cap error on a day whose worklogs alone are within the cap
C1_Witness ==
    /\ pc = "exited"
    /\ Len(out) > 1
    /\ IsEvent(Len(out), "cap_error")
    /\ SumSpent(worklogs) <= CapHours
    /\ SumSpent(worklogs) + out[Len(out) - 1][2] > CapHours

-----------------------------------------------------------------------------
(* The overlap warning *)

Intersect(s1, e1, s2, e2) == s1 < e2 /\ s2 < e1

\* the warnings of the log_time call that is waiting at 'Continue?'
WarnedAbout(w) ==
    \E i \in RunStart(Len(out))..Len(out) :
        /\ IsEvent(i, "warning")
        /\ out[i][2] = w.started
        /\ out[i][3] = WorklogEnd(w)

\* C2: log_time warns about a worklog of the day exactly when the new entry's
\* interval [started, started + duration) and the worklog's interval
\* [W.started, W.started + W.duration) intersect, also for an entry or a worklog
\* that runs past midnight; and after the warnings the entry is still printed.
C2_OverlapWarning ==
    /\ (pc = "continue" /\ loc.duration > 0) =>
          \A k \in 1..Len(worklogs) :
              WarnedAbout(worklogs[k])
              <=> Intersect(loc.started, loc.started + loc.duration,
                            worklogs[k].started, WorklogEnd(worklogs[k]))
    /\ \A i \in EventsOf("warning") :
          i < Len(out) /\ (IsEvent(i + 1, "warning") \/ IsEvent(i + 1, "print"))

-----------------------------------------------------------------------------
(* Booking *)

\* C3: within one log invocation create_worklog is called at most once, and
\* only after the lookup of the booked issue succeeded, the entry was printed
\* and passed the cap check, and --yes was given or 'Continue?' was answered
\* with yes; after a no to 'Continue?' nothing is booked.
C3_CreateOnceAfterChecks ==
    /\ \A k \in EventsOf("create") :
          /\ \A k2 \in EventsOf("create") : TopStart(k2) = TopStart(k) => k2 = k
          /\ \E i \in (RunStart(k) + 1)..(k - 1) :
                /\ IsEvent(i, "lookup")
                /\ out[i][2] = out[k][2]
                /\ out[i][3]
                /\ \E j \in (i + 1)..(k - 1) :
                      /\ IsEvent(j, "print")
                      /\ out[j][2] = out[k][4]
                      /\ \A n \in j..k : ~ IsEvent(n, "cap_error")
          /\ SumSpent(worklogs) <= CapHours
          /\ \/ out[RunStart(k)][2].yes
             \/ /\ IsEvent(k - 2, "continue?")
                /\ IsEvent(k - 1, "answer")
                /\ out[k - 1][2]
    /\ \A i \in EventsOf("continue?") :
          (i < Len(out) /\ IsEvent(i + 1, "answer") /\ ~ out[i + 1][2]) =>
              \A k \in EventsOf("create") : k > i => TopStart(k) > i

\* the user confirmed at the prompt and the entry was booked
C3_Witness ==
    /\ Len(out) > 2
    /\ IsEvent(Len(out), "create")
    /\ IsEvent(Len(out) - 1, "answer")
    /\ IsEvent(Len(out) - 2, "continue?")

-----------------------------------------------------------------------------
(* Start, end and duration of the new entry *)

NineOClock == 9

\* the start by the documented precedence
ExpectedStart(a, wl, env) ==
    IF a.start # None THEN Val(a.start)
    ELSE IF wl # <<>> THEN TimeOf(WorklogEnd(wl[Len(wl)]))
    ELSE IF env # None THEN ParseTime(Val(env))
    ELSE NineOClock

\* C4: the start log_time prints is --start when given; else the end of the
\* day's last worklog when the day has one; else LT_LOG_START when set; else 9:00.
C4_StartPrecedence ==
    [][\A i \in (Len(out) + 1)..Len(out') :
          out'[i][1] = "print" =>
              out'[i][3] = ExpectedStart(args', worklogs, envStart)]_vars

\* the day's last worklog decides the start although LT_LOG_START is set
C4_Witness ==
    /\ pc = "continue"
    /\ args.start = None
    /\ worklogs # <<>>
    /\ envStart # None
    /\ out[Len(out) - 1][3] = TimeOf(WorklogEnd(worklogs[Len(worklogs)]))
    /\ out[Len(out) - 1][3] # ParseTime(Val(envStart))

LunchOf(a) == IF a.lunch # None THEN Val(a.lunch) ELSE 0

\* C5: with --end the printed duration is end - start and the positional
\* duration is ignored, otherwise the end is start + duration on the clock;
\* --lunch is subtracted from the duration and moves the end earlier by the same span.
C5_EndDurationLunch ==
    \A i \in EventsOf("print") :
        LET a     == out[RunStart(i)][2]
            start == out[i][3]
        IN  /\ out[i][2] = (IF a.end # None THEN Val(a.end) - start ELSE a.duration)
                           - LunchOf(a)
            /\ out[i][4] = TimeOf((IF a.end # None THEN Val(a.end) ELSE start + a.duration)
                                  - LunchOf(a))

\* --end and --lunch together, with a positional duration that differs
C5_Witness ==
    /\ pc = "continue"
    /\ args.end # None
    /\ args.lunch # None
    /\ out[Len(out) - 1][2] # args.duration
    /\ out[Len(out) - 1][2] > 0

\* C6: the duration handed to create_worklog is never negative.
C6_NonNegativeDuration == \A k \in EventsOf("create") : out[k][4] >= 0

-----------------------------------------------------------------------------
(* Issue resolution *)

\* the candidates as documented: the issues of the alias names similar to the
\* input, and the cached issues whose summary contains the input
Candidates(issue, aliases) ==
    {DictGet(aliases, name) : name \in CloseMatches(issue, DictKeys(aliases))}
    \cup {IssueCache[i][1] : i \in {n \in 1..Len(IssueCache) :
                                       IsSubstr(Lower(issue), Lower(IssueCache[n][2]))}}

NothingBookedAfter(i) == \A k \in EventsOf("create") : k > i => TopStart(k) > i

\* C7: after a failed lookup, zero or several candidates make log_time report
\* the failure (with the list when there are several) and book nothing; exactly
\* one candidate makes it ask 'Did you mean', a yes re-runs log_time with the
\* candidate as issue and all other arguments unchanged, a no books nothing.
C7_ResolutionByCandidateCount ==
    \A i \in EventsOf("lookup") :
        ~ out[i][3] =>
            IF Cardinality(Candidates(out[i][2], ctx.aliases)) = 1
            THEN /\ IsEvent(i + 1, "did_you_mean?")
                 /\ out[i + 1][2] \in Candidates(out[i][2], ctx.aliases)
                 /\ (i + 2 <= Len(out) /\ out[i + 2][2]) =>
                       /\ IsEvent(i + 3, "log_time")
                       /\ out[i + 3][2] = [out[RunStart(i)][2] EXCEPT !.issue = out[i + 1][2]]
                 /\ (i + 2 <= Len(out) /\ ~ out[i + 2][2]) => NothingBookedAfter(i)
            ELSE /\ IsEvent(i + 1, "error")
                 /\ Cardinality(Candidates(out[i][2], ctx.aliases)) > 1 =>
                       /\ IsEvent(i + 2, "did_you_mean")
                       /\ DictKeys([n \in 1..Len(out[i + 2][2]) |-> <<out[i + 2][2][n], n>>])
                          = Candidates(out[i][2], ctx.aliases)
                 /\ NothingBookedAfter(i)

\* C8: once the alias command has stored a short name for an issue the tracker
\* knows, log given that short name looks up that issue.
C8_AliasRoundTrip ==
    \A i \in EventsOf("alias_created") :
        \A j \in EventsOf("log_time") :
            (/\ i < j
             /\ out[i][2] \in JiraIssues
             /\ \A n \in EventsOf("alias_created") : n <= i
             /\ out[j][3] = 0
             /\ out[j][2].issue = out[i][3]
             /\ IsEvent(j + 1, "lookup"))
            => out[j + 1][2] = out[i][2] /\ out[j + 1][3]

\* C9: when an entry of logm fails, the entries after it are still processed:
\* the command never ends on an error with a non-empty entry left over.
C9_LogmContinuesAfterFailure ==
    pc = "exited" => \A n \in 1..Len(todo) : todo[n] = <<>>

-----------------------------------------------------------------------------
(* The sparkline *)

WorkdaysIn(from_date, to_date) ==
    Cardinality({d \in from_date..to_date : Weekday(d) <= 4})

\* C10: a sparkline that is not empty has one character for every workday
\* (Monday to Friday) of the range and none for Saturdays and Sundays.
C10_OneCharacterPerWorkday ==
    sparkOut # <<>> => Len(sparkOut) = WorkdaysIn(sparkIn.from_date, sparkIn.to_date)

\* no workday of the range carries any time
NothingToShow(daily_data, from_date, to_date) ==
    \A d \in from_date..to_date : Weekday(d) <= 4 => HoursOn(daily_data, d) = 0

\* C11: when no workday of the range has any logged time (every value zero,
\* no key of the range in daily_data, or a range of Saturdays and Sundays,
\* whatever those carry) the sparkline is the empty string.
C11_EmptyWhenNothingToShow ==
    (/\ sparkIn # NoSparkArgs
     /\ NothingToShow(sparkIn.daily_data, sparkIn.from_date, sparkIn.to_date))
        => sparkOut = <<>>

\* C20: in the sparkline of the fallback renderer a day without time is a
\* blank, a day with time is one of the 8 blocks and never a blank, a day with
\* the largest time of the range is the full block, and a day with more time
\* than another never has a lower block than it.
C20_GlyphMapping ==
    (sparkIn # NoSparkArgs /\ ~ sparkIn.installed /\ sparkOut # <<>>) =>
        /\ Len(sparkOut) = sparkIn.to_date - sparkIn.from_date + 1
        /\ \A i \in 1..Len(sparkOut) :
              /\ HoursOn(sparkIn.daily_data, sparkIn.from_date + i - 1) = 0 <=> sparkOut[i] = 0
              /\ sparkOut[i] \in 0..SparkLevels
              /\ (\A j \in 1..Len(sparkOut) :
                     HoursOn(sparkIn.daily_data, sparkIn.from_date + j - 1)
                         <= HoursOn(sparkIn.daily_data, sparkIn.from_date + i - 1))
                    => sparkOut[i] = SparkLevels
              /\ \A j \in 1..Len(sparkOut) :
                     HoursOn(sparkIn.daily_data, sparkIn.from_date + j - 1)
                         < HoursOn(sparkIn.daily_data, sparkIn.from_date + i - 1)
                        => sparkOut[j] <= sparkOut[i]

\* a blank, a full block and a block in between in one sparkline
C20_Witness ==
    /\ sparkIn # NoSparkArgs
    /\ ~ sparkIn.installed
    /\ \E i, j, k \in 1..Len(sparkOut) :
          /\ sparkOut[i] = 0
          /\ sparkOut[j] = SparkLevels
          /\ sparkOut[k] > 0
          /\ sparkOut[k] < SparkLevels

-----------------------------------------------------------------------------
(* list and stats *)

\* the places (project, position) where the stats hold the worklog with this id
PlacesOf(stats, id) ==
    {pk \in (1..Len(stats)) \X (1..MaxStatsWorklogs + 1) :
        /\ pk[2] <= Len(stats[pk[1]][2].worklogs)
        /\ stats[pk[1]][2].worklogs[pk[2]].id = id}

SecondsOfWorklogs(ws) == [i \in 1..Len(ws) |-> ws[i].timeSpentSeconds]

TotalPrinted(lines) == lines[Len(lines)][2]

\* C12: once stats has folded the worklogs it fetched, every worklog is held by
\* exactly one project, the seconds of a project are the sum of the seconds of
\* its worklogs and the sum of the seconds of its days, and the total printed
\* is the sum of the seconds of all the worklogs fetched.
C12_AggregationSums ==
    statsOut.cmd = "stats" =>
        /\ \A i \in 1..Len(statsOut.fetched) :
              Cardinality(PlacesOf(statsOut.stats, statsOut.fetched[i].id)) = 1
        /\ \A p \in 1..Len(statsOut.stats) :
              /\ statsOut.stats[p][2].timeSpentSeconds
                     = SumOf(SecondsOfWorklogs(statsOut.stats[p][2].worklogs))
              /\ statsOut.stats[p][2].timeSpentSeconds
                     = SumOf(SecondsOf(statsOut.stats[p][2].days))
        /\ TotalPrinted(statsOut.lines) = SumOf(SecondsOfWorklogs(statsOut.fetched))

\* three worklogs in two projects, two of them on the same day of one project
C12_Witness ==
    /\ statsOut.cmd = "stats"
    /\ Len(statsOut.fetched) = 3
    /\ Len(statsOut.stats) = 2
    /\ \E p \in 1..Len(statsOut.stats) :
          /\ Len(statsOut.stats[p][2].worklogs) = 2
          /\ Len(statsOut.stats[p][2].days) = 1
    /\ TotalPrinted(statsOut.lines) = 5

ProjectLineNumbers(lines) == {i \in 1..Len(lines) : lines[i][1] = "project"}

\* where the worklogs fetched first show the project
FirstSeen(fetched, aliases, project) ==
    CHOOSE i \in 1..Len(fetched) :
        /\ GetProjectName(aliases, fetched[i].issue) = project
        /\ \A j \in 1..(i - 1) : GetProjectName(aliases, fetched[j].issue) # project

\* C13: stats prints the projects by falling total, and of two projects of the
\* same total the one whose first worklog was fetched first comes first.
C13_DescendingStable ==
    statsOut.cmd = "stats" =>
        \A i, j \in ProjectLineNumbers(statsOut.lines) :
            i < j =>
                \/ statsOut.lines[i][3] > statsOut.lines[j][3]
                \/ /\ statsOut.lines[i][3] = statsOut.lines[j][3]
                   /\ FirstSeen(statsOut.fetched, statsIn.aliases, statsOut.lines[i][2])
                          < FirstSeen(statsOut.fetched, statsIn.aliases, statsOut.lines[j][2])

\* two projects of the same total behind a larger one that was fetched last
C13_Witness ==
    /\ statsOut.cmd = "stats"
    /\ Cardinality(ProjectLineNumbers(statsOut.lines)) = 3
    /\ \E i, j \in ProjectLineNumbers(statsOut.lines) :
          /\ i < j
          /\ statsOut.lines[i][3] = statsOut.lines[j][3]
    /\ GetProjectName(statsIn.aliases, statsOut.fetched[3].issue) = statsOut.lines[2][2]

\* a project line that carries a sparkline that is not empty
SparklineRendered(lines) ==
    \E i \in ProjectLineNumbers(lines) : lines[i][4] # None /\ Val(lines[i][4]) # <<>>

\* C14: the total line carries axis labels only when sparklines are on, some
\* project line carries a sparkline and the range is not a weekly one.
C14_AxisLabelsOnlyWithSparkline ==
    (statsOut.cmd = "stats" /\ statsOut.lines[Len(statsOut.lines)][3] # <<>>)
        => /\ statsIn.show_sparkline
           /\ SparklineRendered(statsOut.lines)
           /\ DetermineDateRangeType(statsOut.from_date, statsOut.to_date) # "weekly"

\* C18: the range list and stats work on has from_date <= to_date.
C18_RangeOrdered ==
    statsOut.cmd # "" => statsOut.from_date <= statsOut.to_date

-----------------------------------------------------------------------------
(* The range classifier and the axis labels *)

\* C15: determine_date_range_type answers as its tests say: weekly when
\* to_date - from_date is at most 13 days, monthly when it is 14 to 59 days,
\* yearly when it is 60 days or more.
C15_RangeTypeAsTested ==
    rangeIn.fn = "determine_date_range_type" =>
        rangeOut = <<IF rangeIn.to_date - rangeIn.from_date <= 13 THEN "weekly"
                     ELSE IF rangeIn.to_date - rangeIn.from_date <= 59 THEN "monthly"
                     ELSE "yearly">>

\* the two ends of the monthly ranges
C15_Witness ==
    /\ rangeIn.fn = "determine_date_range_type"
    /\ \/ rangeIn.to_date - rangeIn.from_date = 59 /\ rangeOut = <<"monthly">>
       \/ rangeIn.to_date - rangeIn.from_date = 60 /\ rangeOut = <<"yearly">>

\* the days of the range, both ends counted
Span(from_date, to_date) == to_date - from_date + 1

\* C16, as the claim has it: the type is weekly up to 13 days (both ends
\* counted), monthly from 14 to 60 days and yearly above.
C16_ThirteenDayWeek ==
    rangeIn.fn = "determine_date_range_type" =>
        rangeOut = <<IF Span(rangeIn.from_date, rangeIn.to_date) <= 13 THEN "weekly"
                     ELSE IF Span(rangeIn.from_date, rangeIn.to_date) <= 60 THEN "monthly"
                     ELSE "yearly">>

\* C16, amended: the type depends on the number n of days of the range alone
\* (both ends counted), and it is weekly for n <= 14, monthly for
\* 15 <= n <= 60 and yearly for n > 60.
C16_PureFunctionOfSpan ==
    rangeIn.fn = "determine_date_range_type" =>
        /\ rangeOut = <<DetermineDateRangeType(0, Span(rangeIn.from_date, rangeIn.to_date) - 1)>>
        /\ rangeOut = <<"weekly">> <=> Span(rangeIn.from_date, rangeIn.to_date) <= 14
        /\ rangeOut = <<"yearly">> <=> Span(rangeIn.from_date, rangeIn.to_date) > 60
        /\ rangeOut \in {<<"weekly">>, <<"monthly">>, <<"yearly">>}

\* a range of 14 days that does not start on the first day, and is weekly
C16_Witness ==
    /\ rangeIn.fn = "determine_date_range_type"
    /\ rangeIn.from_date > 0
    /\ Span(rangeIn.from_date, rangeIn.to_date) = 14
    /\ rangeOut = <<"weekly">>

\* len(labels.rstrip())
RStripLen(labels) ==
    LET inked == {i \in 1..Len(labels) : labels[i] # " "}
    IN  IF inked = {} THEN 0 ELSE CHOOSE i \in inked : \A j \in inked : j <= i

\* C17: generate_axis_labels returns the empty string for the weekly type and
\* for a range without a workday; for the monthly type the labels, trailing
\* blanks aside, are no longer than the range has workdays.
C17_AxisLabelsWithinWorkdays ==
    rangeIn.fn = "generate_axis_labels" =>
        /\ (\/ rangeIn.range_type = "weekly"
            \/ WorkdaysIn(rangeIn.from_date, rangeIn.to_date) = 0) => rangeOut = <<>>
        /\ rangeIn.range_type = "monthly" =>
               RStripLen(rangeOut) <= WorkdaysIn(rangeIn.from_date, rangeIn.to_date)

\* a monthly range whose last workday opens a week: its label is cut short
C17_Witness ==
    /\ rangeIn.fn = "generate_axis_labels"
    /\ rangeIn.range_type = "monthly"
    /\ Len(rangeOut) = WorkdaysIn(rangeIn.from_date, rangeIn.to_date)
    /\ Len(rangeOut) > 5
    /\ rangeOut[Len(rangeOut)] = "W"

-----------------------------------------------------------------------------
(* The configuration *)

\* the keys both files define
DefinedInBoth(files) ==
    {key \in ConfigKeys :
        /\ key \in DictKeys(DotenvValues(files.local))
        /\ key \in DictKeys(DotenvValues(files.system))}

LocalValue(files, key) == DictGet(DotenvValues(files.local), key)

\* C19: the local configuration goes before the system configuration.  For a
\* key both files define, config KEY prints the local value, the listing of
\* config shows the local value, and config.load() leaves the local value in
\* the environment unless the variable was set before; config KEY VALUE
\* without --system/--local writes the local file when there is one and the
\* system file only when there is none.
C19_LocalBeforeSystem ==
    [][nConfig' = nConfig + 1 =>
          /\ \A key \in DefinedInBoth(configFiles) :
                /\ (/\ configIn'.args.key = Some(key)
                    /\ configIn'.args.value = None
                    /\ ~ configIn'.args.unset
                    /\ configIn'.args.system = None)
                       => configOut' = << <<"value", LocalValue(configFiles, key)>> >>
                /\ (/\ configIn'.args.key = None
                    /\ ~ configIn'.args.unset
                    /\ configIn'.args.system = None)
                       => /\ Len(configOut') = 1
                          /\ configOut'[1][1] = "json"
                          /\ DictGet(configOut'[1][2], key) = LocalValue(configFiles, key)
                /\ key \notin DictKeys(configIn'.environ)
                       => DictGet(environ', key) = LocalValue(configFiles, key)
          /\ (/\ configIn'.args.key # None
              /\ configIn'.args.value # None
              /\ configIn'.args.system = None)
                 => IF configFiles.local # None
                    THEN /\ configFiles'.system = configFiles.system
                         /\ configFiles'.local
                                = Some(DictSet(Val(configFiles.local), Val(configIn'.args.key),
                                               Val(configIn'.args.value)))
                    ELSE /\ configFiles'.local = None
                         /\ configFiles'.system
                                = Some(DictSet(DotenvValues(configFiles.system),
                                               Val(configIn'.args.key),
                                               Val(configIn'.args.value)))]_vars

\* config KEY printed the local value of a key the system file defines otherwise
C19_Witness ==
    /\ configIn.args.key # None
    /\ configIn.args.value = None
    /\ ~ configIn.args.unset
    /\ configIn.args.system = None
    /\ Val(configIn.args.key) \in DefinedInBoth(configFiles)
    /\ DictGet(Val(configFiles.system), Val(configIn.args.key))
           # LocalValue(configFiles, Val(configIn.args.key))
    /\ configOut = << <<"value", LocalValue(configFiles, Val(configIn.args.key))>> >>

\* the place of the read or the write of the invocation p among the steps
StepOf(kind, p) == CHOOSE i \in 1..Len(aliasSteps) : aliasSteps[i] = <<kind, p>>

Wrote(p) == \E i \in 1..Len(aliasSteps) : aliasSteps[i] = <<"write", p>>

\* p wrote, and q wrote after it and last of all
WroteLastAfter(p, q) ==
    /\ p # q
    /\ Wrote(p)
    /\ Wrote(q)
    /\ StepOf("write", p) < StepOf("write", q)
    /\ StepOf("write", q) = Len(aliasSteps)

\* C21: alias reads the file and writes it back with no lock.  When one
\* invocation runs after the other, the alias of each is in the file.  When the
\* later writer read before the earlier one wrote, the file is the mapping the
\* later writer read with its own alias set: the entry of the earlier writer's
\* issue is what it was before, so that alias is lost.
C21_LastWriterWins ==
    \A p \in AliasProcs, q \in AliasProcs :
        WroteLastAfter(p, q) =>
            LET P == aliasProcs[p]
                Q == aliasProcs[q]
            IN  /\ aliasFile = DictSet(Q.aliases, Val(Q.issue), Q.name)
                /\ DictGet(aliasFile, Val(Q.issue)) = Q.name
                /\ P.issue # Q.issue =>
                      IF StepOf("write", p) < StepOf("read", q)
                      THEN /\ Val(P.issue) \in DictKeys(aliasFile)
                           /\ DictGet(aliasFile, Val(P.issue)) = P.name
                      ELSE IF Val(P.issue) \in DictKeys(Q.aliases)
                           THEN DictGet(aliasFile, Val(P.issue)) = DictGet(Q.aliases, Val(P.issue))
                           ELSE Val(P.issue) \notin DictKeys(aliasFile)

\* two invocations read the same file, both wrote, and the alias of the first
\* writer is not in the file
C21_Witness ==
    \E p \in AliasProcs, q \in AliasProcs :
        /\ WroteLastAfter(p, q)
        /\ StepOf("read", q) < StepOf("write", p)
        /\ aliasProcs[p].issue # aliasProcs[q].issue
        /\ Val(aliasProcs[p].issue) \notin DictKeys(aliasFile)

\* the seconds of the worklogs of ws that started on the date d
SecondsOn(ws, d) == SumOf(SecondsOfWorklogs(SelectSeq(ws, LAMBDA w : w.day = d)))

\* the daily data the sparkline of a project is drawn from (stats.py 161-163)
DailyDataOf(entry) ==
    [date \in DictKeys(entry.days) |-> DictGet(entry.days, date).timeSpentSeconds]

\* C22: the worklogs that went into one daily bucket of a project all started
\* on the same calendar date, and the value the sparkline takes for a date of
\* the range is the seconds of the project's worklogs of that date, on ranges
\* of more than a year as well.
C22_BucketsHoldOneDate ==
    statsOut.cmd = "stats" =>
        \A p \in 1..Len(statsOut.stats) :
            LET entry == statsOut.stats[p][2]
            IN  /\ \A i \in 1..Len(entry.worklogs), j \in 1..Len(entry.worklogs) :
                      DateStr(entry.worklogs[i].day) = DateStr(entry.worklogs[j].day)
                          => entry.worklogs[i].day = entry.worklogs[j].day
                /\ \A d \in statsOut.from_date..statsOut.to_date :
                      HoursOn(DailyDataOf(entry), d) = SecondsOn(entry.worklogs, d)

-----------------------------------------------------------------------------
(* Commands one after the other *)

\* the hours booked by the commands so far
CreatedHours == SumOf([i \in 1..Len(out) |-> IF IsEvent(i, "create") THEN out[i][4] ELSE 0])

\* the hours the day held before the first command
InitialHours == SumSpent(worklogs) - CreatedHours

\* C23: on a day that held at most 10h before the first command, the hours
\* recorded never exceed 10h, whatever log and logm commands run one after the
\* other, each seeing what the earlier ones booked.
C23_SequentialCap ==
    InitialHours <= CapHours => SumSpent(worklogs) <= CapHours

\* two commands have booked, the day is at 10h, and the third is refused
C23_Witness ==
    /\ InitialHours < CapHours
    /\ ProcessesEnded = 2
    /\ Cardinality(EventsOf("create")) = 2
    /\ SumSpent(worklogs) = CapHours
    /\ IsEvent(Len(out), "cap_error")

-----------------------------------------------------------------------------
(* The chain of re-invocations *)

\* the issues whose lookup has failed since the command started, before out[i]
FailedBefore(i) ==
    {out[j][2] : j \in {k \in TopStart(i)..(i - 1) : IsEvent(k, "lookup") /\ ~ out[k][3]}}

\* C24: log comes to its end even when the user accepts every suggestion: the
\* chain of re-invocations makes progress, 'Did you mean' never suggests an
\* issue whose lookup has already failed in the same command (log_time would
\* fail on it in the same way again and suggest it again).
C24_ChainMakesProgress ==
    \A i \in EventsOf("did_you_mean?") : out[i][2] \notin FailedBefore(i)

-----------------------------------------------------------------------------
(* Authentication *)

MainEvents(kind) == {n \in 1..Len(mainOut.events) : mainOut.events[n][1] = kind}

\* C25: a subcommand that reads the client or the user from the context runs
\* only after main has connected and authenticated: when such a subcommand is
\* invoked, the events before it are those of a connection and an
\* authentication that succeeded, and ctx.obj holds the client and the user.
C25_AuthenticationPrecedesUse ==
    \A n \in MainEvents("subcommand") :
        mainOut.events[n][2] \in ContextReaders =>
            /\ \E c \in MainEvents("connect") : c < n /\ mainOut.events[c][3]
            /\ \E m \in MainEvents("myself") : m < n /\ mainOut.events[m][3]
            /\ mainOut.obj.jira # None
            /\ mainOut.obj.myself # None
            /\ mainOut.events[n][3] = "ran"

KindIn(events, kind) == {n \in 1..Len(events) : events[n][1] = kind}

\* in the events of a run, the token was stored after a connection and an
\* authentication with it that succeeded, and it had not come from the keyring
StoredAfterSuccess(events, n) ==
    /\ \E c \in KindIn(events, "connect") :
          c < n /\ events[c][2] = events[n][3] /\ events[c][3]
    /\ \E m \in KindIn(events, "myself") :
          m < n /\ events[m][2] = events[n][3] /\ events[m][3]
    /\ \A g \in KindIn(events, "keyring_get") : events[g][3] = None

\* C26: in every run of main, a token is written to the keyring only after the
\* connection and the authentication with that token have succeeded, a token
\* read from the keyring is not written back, the keyring changes by such a
\* write alone, and a run whose connection or authentication fails leaves the
\* keyring as it was.
C26_KeyringWrittenAfterSuccess ==
    [][nMain' = nMain + 1 =>
          /\ \A n \in KindIn(mainOut'.events, "keyring_set") :
                /\ StoredAfterSuccess(mainOut'.events, n)
                /\ keyring'[mainOut'.events[n][2]] = Some(mainOut'.events[n][3])
          /\ \A u \in Users :
                keyring'[u] # keyring[u] =>
                    \E n \in KindIn(mainOut'.events, "keyring_set") :
                        mainOut'.events[n][2] = u
          /\ KindIn(mainOut'.events, "error") # {} => keyring' = keyring
          /\ (\E g \in KindIn(mainOut'.events, "keyring_get") :
                  mainOut'.events[g][3] # None) => keyring' = keyring]_vars

\* the second run authenticates with the token the first run stored, and
\* stores nothing
C26_Witness ==
    /\ nMain = 2
    /\ \E g \in KindIn(mainOut.events, "keyring_get") :
          /\ mainOut.events[g][3] # None
          /\ keyring[mainOut.events[g][2]] = mainOut.events[g][3]
    /\ \E m \in KindIn(mainOut.events, "myself") : mainOut.events[m][3]
    /\ KindIn(mainOut.events, "keyring_set") = {}

-----------------------------------------------------------------------------
(* The entries of one logm *)

\* a logm without --start and --end has come to its end, all its entries were
\* well-formed, named issues the tracker knows, ran with --yes and none was
\* refused by the daily cap
LogmOfConfirmedEntries ==
    /\ ctx.invoked_subcommand = "logm"
    /\ pc \in {"done", "crashed", "exited"}
    /\ opts.start = None
    /\ opts.end = None
    /\ EventsOf("log_time") # {}
    /\ \A i \in EventsOf("log_time") : out[i][2].issue \in JiraIssues /\ out[i][2].yes
    /\ EventsOf("cap_error") = {}
    /\ EventsOf("invalid_entry") = {}

-----------------------------------------------------------------------------
(* The entry that follows the day's last worklog *)

\* the worklogs are in the order of their starts and none reaches into the next
TidyDay(wl) == \A i \in 1..(Len(wl) - 1) : WorklogEnd(wl[i]) <= wl[i + 1].started

\* in the events o, the call of log_time that the event k belongs to
CallOf(o, k) == CHOOSE i \in 1..k : o[i][1] = "log_time" /\ \A j \in (i + 1)..k : o[j][1] # "log_time"

\* C28: an entry created without --start on a day whose worklogs are
\* chronological and do not overlap begins at the instant the day's last
\* worklog ends, intersects none of the day's worklogs, and log_time has
\* printed no overlap warning for it.
C28_FollowsLastWorklog ==
    [][\A k \in (Len(out) + 1)..Len(out') :
          (/\ out'[k][1] = "create"
           /\ args'.start = None
           /\ worklogs # <<>>
           /\ TidyDay(worklogs)) =>
              /\ out'[k][3] = WorklogEnd(worklogs[Len(worklogs)])
              /\ \A n \in 1..Len(worklogs) :
                    ~ Intersect(out'[k][3], out'[k][3] + out'[k][4],
                                worklogs[n].started, WorklogEnd(worklogs[n]))
              /\ \A w \in CallOf(out', k)..k : out'[w][1] # "warning"]_vars

====
